---------------------------- MODULE Spec2Model ----------------------------
(***************************************************************************)
(* Commit-tree ingestion of cvs/git (PreProcessedRepository) and the C++   *)
(* directory accumulator (CppAcc).                                          *)
(*                                                                         *)
(* One step of the model is one iteration of a traversal loop               *)
(* (handle_maven_module, fast_fwd, handle_java_src), one call of            *)
(* handle_maven_commit / handle_java_commit up to its first iteration, or   *)
(* one call of CppAcc::push.                                                *)
(***************************************************************************)
EXTENDS Integers, Sequences, FiniteSets, TLC

(***************************************************************************)
(* Bounds of the model.                                                     *)
(***************************************************************************)
\* number of commits ingested in one run
MaxCommits == 2
\* number of children pushed on the stand-alone CppAcc
MaxCppChildren == 3
\* hashes are taken modulo HashSpace, so that distinct folds can collide
HashSpace == 7
\* number of calls of purge_caches in one run
MaxPurges == 1

(***************************************************************************)
(* Generic helpers on sequences and sets.                                   *)
(***************************************************************************)
Last(s) == s[Len(s)]

Front(s) == SubSeq(s, 1, Len(s) - 1)

Reverse(s) == [i \in 1..Len(s) |-> s[Len(s) + 1 - i]]

Swap(s, i, j) == [k \in 1..Len(s) |-> IF k = i THEN s[j] ELSE IF k = j THEN s[i] ELSE s[k]]

Min(S) == CHOOSE x \in S : \A y \in S : x <= y

Max2(a, b) == IF a >= b THEN a ELSE b

Range(s) == {s[i] : i \in 1..Len(s)}

\* Option<T>
None == [some |-> FALSE]

Some(x) == [some |-> TRUE, v |-> x]

(***************************************************************************)
(* The Git object store (external input).  OIDs are content addresses:     *)
(* one OID is one content.  A tree lists its entries in Git's order         *)
(* (sorted by name).  A blob carries what the external file handlers        *)
(* derive from its bytes.                                                   *)
(***************************************************************************)
VARIABLES
  a_java_refs,                      \* the number of references the Java generator finds in bA1
  PROPAGATE_ERROR_ON_BAD_CST_NODE   \* the compile-time flag of the build that runs

inputs == << a_java_refs, PROPAGATE_ERROR_ON_BAD_CST_NODE >>

\* number of calls of handle_cpp_file in one run
MaxCppFiles == 2

\* the reference budget of a partial analysis
MAX_REFS == 10000

TreeEntry(x, name) == [kind |-> "Tree", oid |-> x, name |-> name]

BlobEntry(x, name) == [kind |-> "Blob", oid |-> x, name |-> name]

\* src/main/java and src/test/java, the Maven defaults
DefaultMainDirs == << <<"src", "main", "java">> >>

DefaultTestDirs == << <<"src", "test", "java">> >>

Blobs ==
  [ bPom  |-> [utf8 |-> TRUE, parse_ok |-> TRUE, size |-> 2, height |-> 2, hash |-> 3,
               sub_modules |-> << >>, main_dirs |-> DefaultMainDirs, test_dirs |-> DefaultTestDirs],
    bPomM |-> [utf8 |-> TRUE, parse_ok |-> TRUE, size |-> 3, height |-> 2, hash |-> 4,
               sub_modules |-> << <<"core">> >>, main_dirs |-> DefaultMainDirs,
               test_dirs |-> DefaultTestDirs],
    bPomUp |-> [utf8 |-> TRUE, parse_ok |-> TRUE, size |-> 2, height |-> 2, hash |-> 0,
               sub_modules |-> << >>, main_dirs |-> << <<"..", "shared", "java">> >>,
               test_dirs |-> << >>],
    bBadPom |-> [utf8 |-> TRUE, parse_ok |-> FALSE, size |-> 2, height |-> 2, hash |-> 1,
               sub_modules |-> << >>, main_dirs |-> DefaultMainDirs,
               test_dirs |-> DefaultTestDirs],
    bBadJava |-> [utf8 |-> TRUE, parse_ok |-> FALSE, size |-> 3, height |-> 2, hash |-> 2,
               sub_modules |-> << >>, main_dirs |-> << >>, test_dirs |-> << >>,
               refs |-> 3, solvable |-> 0],
    bCpp  |-> [utf8 |-> TRUE, parse_ok |-> TRUE, size |-> 3, height |-> 2, hash |-> 4],
    bCppBad |-> [utf8 |-> TRUE, parse_ok |-> FALSE, size |-> 2, height |-> 2, hash |-> 5],
    bPomS |-> [utf8 |-> TRUE, parse_ok |-> TRUE, size |-> 2, height |-> 2, hash |-> 6,
               sub_modules |-> << >>, main_dirs |-> << <<"src">> >>,
               test_dirs |-> << <<"tst">> >>],
    bPomB |-> [utf8 |-> TRUE, parse_ok |-> TRUE, size |-> 2, height |-> 2, hash |-> 2,
               sub_modules |-> << <<"tst">> >>, main_dirs |-> << >>,
               test_dirs |-> << <<"tst">> >>],
    bRaw  |-> [utf8 |-> FALSE, parse_ok |-> TRUE, size |-> 1, height |-> 1, hash |-> 1,
               sub_modules |-> << >>, main_dirs |-> << >>, test_dirs |-> << >>],
    bA1   |-> [utf8 |-> TRUE, parse_ok |-> TRUE, size |-> 4, height |-> 3, hash |-> 5,
               sub_modules |-> << >>, main_dirs |-> << >>, test_dirs |-> << >>,
               refs |-> a_java_refs, solvable |-> IF a_java_refs > 0 THEN 1 ELSE 0],
    bA2   |-> [utf8 |-> TRUE, parse_ok |-> TRUE, size |-> 5, height |-> 4, hash |-> 6,
               sub_modules |-> << >>, main_dirs |-> << >>, test_dirs |-> << >>,
               refs |-> MAX_REFS, solvable |-> 0],
    bTxt  |-> [utf8 |-> TRUE, parse_ok |-> TRUE, size |-> 1, height |-> 1, hash |-> 2,
               sub_modules |-> << >>, main_dirs |-> << >>, test_dirs |-> << >>] ]

Trees ==
  [ tJava1 |-> << BlobEntry("bA1", "A.java"), BlobEntry("bTxt", "notes.txt") >>,
    tJava2 |-> << BlobEntry("bA2", "A.java"), BlobEntry("bTxt", "notes.txt") >>,
    tMain1 |-> << TreeEntry("tJava1", "java") >>,
    tMain2 |-> << TreeEntry("tJava2", "java") >>,
    tSrc1  |-> << TreeEntry("tMain1", "main") >>,
    tSrc2  |-> << TreeEntry("tMain2", "main") >>,
    tRoot1 |-> << BlobEntry("bPom", "pom.xml"), TreeEntry("tSrc1", "src") >>,
    tRoot2 |-> << BlobEntry("bPom", "pom.xml"), TreeEntry("tSrc2", "src") >>,
    tDocs  |-> << BlobEntry("bTxt", "x.txt") >>,
    tMulti |-> << BlobEntry("bTxt", ".gitignore"), TreeEntry("tRoot1", "core"),
                  TreeEntry("tDocs", "docs"), BlobEntry("bPomM", "pom.xml"),
                  TreeEntry("tDocs", "site") >>,
    tRepo  |-> << TreeEntry("tDocs", "misc"), TreeEntry("tRoot1", "sub"),
                  BlobEntry("bTxt", "z.txt"), TreeEntry("tDocs", "zzz") >>,
    tRaw   |-> << TreeEntry("tDocs", "docs"), BlobEntry("bRaw", "pom.xml") >>,
    tUp    |-> << TreeEntry("tDocs", "docs"), BlobEntry("bPomUp", "pom.xml") >>,
    tJava3 |-> << BlobEntry("bA1", "A.java"), BlobEntry("bBadJava", "B.java") >>,
    tBad   |-> << BlobEntry("bBadPom", "pom.xml"), TreeEntry("tJava3", "src") >>,
    tTst   |-> << BlobEntry("bA1", "A.java") >>,
    tQ1    |-> << TreeEntry("tDocs", "docs"), BlobEntry("bPomS", "pom.xml"),
                  TreeEntry("tJava1", "src"), TreeEntry("tTst", "tst") >>,
    tQ2    |-> << TreeEntry("tDocs", "docs"), BlobEntry("bPomS", "pom.xml"),
                  TreeEntry("tJava2", "src"), TreeEntry("tTst", "tst") >>,
    tBoth  |-> << BlobEntry("bPomB", "pom.xml"), TreeEntry("tTst", "tst") >>,
    tPkg   |-> << TreeEntry("tTst", "docs") >>,
    tMain3 |-> << TreeEntry("tJava2", "java"), BlobEntry("bTxt", "notes.txt") >>,
    tSrc3  |-> << TreeEntry("tMain3", "main") >>,
    tRoot3 |-> << BlobEntry("bPom", "pom.xml"), TreeEntry("tSrc3", "src") >>,
    tDual  |-> << TreeEntry("tTst", "docs"), BlobEntry("bPomS", "pom.xml"),
                  TreeEntry("tPkg", "src") >> ]

\* commit OID -> root tree OID; c1 and c6 are two commits with the same tree
CommitTree ==
  [ c1 |-> "tRoot1", c2 |-> "tRoot2", c3 |-> "tMulti", c4 |-> "tRepo", c5 |-> "tRaw",
    c6 |-> "tRoot1", c7 |-> "tUp", c8 |-> "tBad", c9 |-> "tQ1", c10 |-> "tQ2",
    c11 |-> "tBoth", c12 |-> "tDual", c13 |-> "tRoot3" ]

\* the calls the driver makes: (entry point, commit, module_path)
Requests ==
  { [mode |-> "maven", commit |-> "c1", module_path |-> << >>],
    [mode |-> "maven", commit |-> "c2", module_path |-> << >>],
    [mode |-> "maven", commit |-> "c6", module_path |-> << >>],
    [mode |-> "maven", commit |-> "c3", module_path |-> << >>],
    [mode |-> "maven", commit |-> "c4", module_path |-> << >>],
    [mode |-> "maven", commit |-> "c4", module_path |-> <<"sub">>],
    [mode |-> "maven", commit |-> "c4", module_path |-> <<"sub", "src">>],
    [mode |-> "maven", commit |-> "c4", module_path |-> <<"sub", "nope">>],
    [mode |-> "maven", commit |-> "c1", module_path |-> <<"nope">>],
    [mode |-> "maven", commit |-> "c5", module_path |-> << >>],
    [mode |-> "maven", commit |-> "c7", module_path |-> << >>],
    [mode |-> "maven", commit |-> "c8", module_path |-> << >>],
    [mode |-> "maven", commit |-> "c9", module_path |-> << >>],
    [mode |-> "maven", commit |-> "c10", module_path |-> << >>],
    [mode |-> "maven", commit |-> "c11", module_path |-> << >>],
    [mode |-> "maven", commit |-> "c12", module_path |-> << >>],
    [mode |-> "java",  commit |-> "c8", module_path |-> << >>],
    [mode |-> "java",  commit |-> "c1", module_path |-> << >>],
    [mode |-> "java",  commit |-> "c2", module_path |-> << >>],
    [mode |-> "java",  commit |-> "c13", module_path |-> << >>],
    [mode |-> "java",  commit |-> "c4", module_path |-> <<"sub">>] }

\* every name of the object store, and the root name b""
AllNames ==
  << "", "pom.xml", "src", "main", "java", "A.java", "notes.txt", "x.txt", ".gitignore",
     "core", "docs", "site", "misc", "sub", "z.txt", "zzz", "B.java", "a.cpp", "tst" >>

JavaNames == {"A.java", "B.java"}

XmlNames == {"pom.xml"}

\* .take(2) of pre_process and pre_process_no_maven
Take == 2

\* the calls of pre_process and pre_process_no_maven: what all_commits_between
\* enumerates between before and after, and dir_path
RevWalks ==
  { [mode |-> "maven", dir_path |-> << >>, oids |-> << "c1", "c2", "c6" >>],
    [mode |-> "java",  dir_path |-> << >>, oids |-> << "c2", "c1" >>],
    [mode |-> "maven", dir_path |-> << >>, oids |-> << "c5" >>] }

(***************************************************************************)
(* Label store: an interning table, LabelId = position in the table.        *)
(***************************************************************************)
\* LabelStore::get: the id of s, or 0 when s was never interned
label_get(ls, s) ==
  IF \E i \in 1..Len(ls) : ls[i] = s THEN CHOOSE i \in 1..Len(ls) : ls[i] = s ELSE 0

\* LabelStore::get_or_insert: the table afterwards
label_intern(ls, s) == IF label_get(ls, s) = 0 THEN Append(ls, s) ELSE ls

\* LabelStore::get_or_insert: the id returned
label_id(ls, s) == label_get(label_intern(ls, s), s)

(***************************************************************************)
(* Hashes.  hash32 and inner_node_hash are pure functions of their          *)
(* arguments; metrics.hashs of an accumulator is the sum of its children's. *)
(***************************************************************************)
NameIndex(s) == CHOOSE i \in 1..Len(AllNames) : AllNames[i] = s

hash32_name(s) == NameIndex(s) % HashSpace

hash32_type(t) == IF t = "MavenDirectory" THEN 1 ELSE IF t = "Directory" THEN 2 ELSE 3

inner_node_hash(kind, label, size, middle) ==
  (kind + 2 * label + 3 * size + 5 * middle) % HashSpace

ZeroHashs == [structt |-> 0, label |-> 0, syntax |-> 0]

\* SubTreeMetrics::default
DefaultMetrics == [size |-> 0, height |-> 0, hashs |-> ZeroHashs]

\* SubTreeMetrics::acc
metrics_acc(m, o) ==
  [size   |-> m.size + o.size,
   height |-> Max2(m.height, o.height),
   hashs  |-> [structt |-> (m.hashs.structt + o.hashs.structt) % HashSpace,
               label   |-> (m.hashs.label + o.hashs.label) % HashSpace,
               syntax  |-> (m.hashs.syntax + o.hashs.syntax) % HashSpace]]

(***************************************************************************)
(* Partial analysis, reduced to its number of references and to how many of *)
(* them the declarations merged with them solve.                            *)
(***************************************************************************)
\* PartialAnalysis::default
PartialAnalysis_default == [refs |-> 0, solvable |-> 0]

\* PartialAnalysis::refs_count, estimated_refs_count
refs_count(ana) == ana.refs

\* PartialAnalysis::acc: ana is merged into the accumulator's analysis
ana_acc(ana, into) == [refs |-> into.refs + ana.refs, solvable |-> into.solvable + ana.solvable]

\* PartialAnalysis::resolve: the solved references leave the analysis
resolve(ana) == [refs |-> ana.refs - ana.solvable, solvable |-> 0]

(***************************************************************************)
(* Node store: append-only, NodeId = position.  A node is a set of typed    *)
(* components, here a function from the component's type to its value.      *)
(***************************************************************************)
\* EntryRef::get_component::<T>().ok()
get_component(n, T) == IF T \in DOMAIN n THEN Some(n[T]) ELSE None

\* NodeRef::get_label
get_label(n) == n["LabelIdentifier"]

\* the children ids a node carries (none when it has no children component)
NodeChildren(n) == IF "CS_NodeIdentifier" \in DOMAIN n THEN n["CS_NodeIdentifier"] ELSE << >>

NodeChildrenNames(n) ==
  IF "CS_LabelIdentifier" \in DOMAIN n THEN n["CS_LabelIdentifier"] ELSE << >>

\* The equality callback of a directory fold: same type tag, same LabelId and
\* same children, the children being asked for as a Vec<NodeIdentifier> component.
dir_eq(x, type, label, children) ==
  LET t == get_component(x, "Type") IN
  IF ~(t.some /\ t.v = type) THEN FALSE
  ELSE LET l == get_component(x, "LabelIdentifier") IN
       IF ~(l.some /\ l.v = label) THEN FALSE
       ELSE LET cs == get_component(x, "Vec_NodeIdentifier") IN
            cs.some /\ cs.v = children

\* a prepare_insertion that takes any node of the type and the label for the node
dir_occupied_by_label(ns, hsyntax, type, label, children) ==
  {i \in 1..Len(ns) : /\ get_component(ns[i], "Type") = Some(type)
                      /\ get_component(ns[i], "LabelIdentifier") = Some(label)}

\* a prepare_insertion that takes any node of the bucket of hsyntax
dir_occupied_by_bucket(ns, hsyntax, type, label, children) ==
  {i \in 1..Len(ns) : ns[i]["SyntaxNodeHashs"].syntax = hsyntax}

\* NodeStore::prepare_insertion(hsyntax, eq): the entries of the bucket of hsyntax
\* that satisfy the fold's eq (empty: the insertion is vacant)
dir_occupied(ns, hsyntax, type, label, children) ==
  {i \in 1..Len(ns) : /\ ns[i]["SyntaxNodeHashs"].syntax = hsyntax
                      /\ dir_eq(ns[i], type, label, children)}

\* The node tuple handle_maven_module and fast_fwd insert.
maven_dir_tuple(label, hashs, children_names, children) ==
  [c \in {"Type", "LabelIdentifier", "SyntaxNodeHashs", "CS_LabelIdentifier",
          "CS_NodeIdentifier", "BloomSize"} |->
     CASE c = "Type" -> "MavenDirectory"
       [] c = "LabelIdentifier" -> label
       [] c = "SyntaxNodeHashs" -> hashs
       [] c = "CS_LabelIdentifier" -> children_names
       [] c = "CS_NodeIdentifier" -> children
       [] c = "BloomSize" -> "Much"]

\* bloom_of with the first two tiers exchanged
bloom_of_tiers_exchanged(x, skiped_ana) ==
  IF x > 2048 \/ skiped_ana THEN "Much"
  ELSE IF x > 1024 THEN "B32x64"
  ELSE IF x > 512 THEN "B32x64"
  ELSE IF x > 256 THEN "B16x64"
  ELSE IF x > 150 THEN "B8x64"
  ELSE IF x > 100 THEN "B4x64"
  ELSE IF x > 30 THEN "B2x64"
  ELSE IF x > 15 THEN "B64"
  ELSE IF x > 8 THEN "B16"
  ELSE IF x > 0 THEN "B32"
  ELSE "None"

\* bloom_of with the tiers of 4, 8 and 2 words where those of 2, 4 and 8 are
bloom_of_words_rotated(x, skiped_ana) ==
  IF x > 2048 \/ skiped_ana THEN "Much"
  ELSE IF x > 1024 THEN "B32x64"
  ELSE IF x > 512 THEN "B32x64"
  ELSE IF x > 256 THEN "B16x64"
  ELSE IF x > 150 THEN "B2x64"
  ELSE IF x > 100 THEN "B8x64"
  ELSE IF x > 30 THEN "B4x64"
  ELSE IF x > 15 THEN "B64"
  ELSE IF x > 8 THEN "B32"
  ELSE IF x > 0 THEN "B16"
  ELSE "None"

\* bloom_of without the test of skiped_ana
bloom_of_skiped_ana_ignored(x, skiped_ana) ==
  IF x > 2048 THEN "Much"
  ELSE IF x > 1024 THEN "B32x64"
  ELSE IF x > 512 THEN "B32x64"
  ELSE IF x > 256 THEN "B16x64"
  ELSE IF x > 150 THEN "B8x64"
  ELSE IF x > 100 THEN "B4x64"
  ELSE IF x > 30 THEN "B2x64"
  ELSE IF x > 15 THEN "B64"
  ELSE IF x > 8 THEN "B32"
  ELSE IF x > 0 THEN "B16"
  ELSE "None"

\* handle_java_src: the bloom component chosen from ana.refs_count() and
\* acc.skiped_ana; a filter Bloom<_, T> is named by its BloomSize (T::SIZE)
bloom_of(x, skiped_ana) ==
  IF x > 2048 \/ skiped_ana THEN "Much"
  ELSE IF x > 1024 THEN "B32x64"
  ELSE IF x > 512 THEN "B32x64"
  ELSE IF x > 256 THEN "B16x64"
  ELSE IF x > 150 THEN "B8x64"
  ELSE IF x > 100 THEN "B4x64"
  ELSE IF x > 30 THEN "B2x64"
  ELSE IF x > 15 THEN "B64"
  ELSE IF x > 8 THEN "B32"
  ELSE IF x > 0 THEN "B16"
  ELSE "None"

\* The node tuple handle_java_src inserts.
\* a Directory node that carries the type of the Maven fold
java_dir_tuple_typed_as_maven(label, hashs, metrics, children_names, children, bloom) ==
  maven_dir_tuple(label, hashs, children_names, children)

java_dir_tuple(label, hashs, metrics, children_names, children, bloom) ==
  IF Len(children) = 0
  THEN [c \in {"Type", "LabelIdentifier", "SyntaxNodeHashs", "BloomSize"} |->
          CASE c = "Type" -> "Directory"
            [] c = "LabelIdentifier" -> label
            [] c = "SyntaxNodeHashs" -> hashs
            [] c = "BloomSize" -> "None"]
  ELSE [c \in {"Type", "LabelIdentifier", "Size", "Height", "SyntaxNodeHashs",
               "CS_LabelIdentifier", "CS_NodeIdentifier", "BloomSize"} |->
          CASE c = "Type" -> "Directory"
            [] c = "LabelIdentifier" -> label
            [] c = "Size" -> metrics.size + 1
            [] c = "Height" -> metrics.height + 1
            [] c = "SyntaxNodeHashs" -> hashs
            [] c = "CS_LabelIdentifier" -> children_names
            [] c = "CS_NodeIdentifier" -> children
            [] c = "BloomSize" -> bloom]

\* The hashes of a directory fold.
fold_hashs(dir_hash, name, metrics) ==
  [structt |-> inner_node_hash(dir_hash, 0, metrics.size, metrics.hashs.structt),
   label   |-> inner_node_hash(dir_hash, hash32_name(name), metrics.size, metrics.hashs.label),
   syntax  |-> inner_node_hash(dir_hash, 0, metrics.size, metrics.hashs.syntax)]

\* fold_metrics with the height left as accumulated
fold_metrics_height_not_raised(metrics, hashs) ==
  [size |-> metrics.size + 1, height |-> metrics.height, hashs |-> hashs]

\* The metrics of the Local/MD a directory fold produces.
fold_metrics(metrics, hashs) ==
  [size |-> metrics.size + 1, height |-> metrics.height + 1, hashs |-> hashs]

(***************************************************************************)
(* The per-file handlers (external): a file node per (type, name, content), *)
(* with the metrics its content gives.                                      *)
(***************************************************************************)
file_metrics(b) ==
  [size |-> Blobs[b].size, height |-> Blobs[b].height,
   hashs |-> [structt |-> Blobs[b].hash, label |-> Blobs[b].hash, syntax |-> Blobs[b].hash]]

file_tuple(type, label, b) ==
  [c \in {"Type", "LabelIdentifier", "SyntaxNodeHashs", "Content"} |->
     CASE c = "Type" -> type
       [] c = "LabelIdentifier" -> label
       [] c = "SyntaxNodeHashs" -> file_metrics(b).hashs
       [] c = "Content" -> b]

\* the tree generators hash-cons their file node
generate_file(ns, ls, type, name, b) ==
  LET ls2 == label_intern(ls, name)
      t == file_tuple(type, label_id(ls, name), b)
      found == {i \in 1..Len(ns) : ns[i] = t}
      id == IF found # {} THEN Min(found) ELSE Len(ns) + 1
  IN [ns |-> IF found # {} THEN ns ELSE Append(ns, t),
      ls |-> ls2,
      local |-> [compressed_node |-> id, metrics |-> file_metrics(b)]]

(***************************************************************************)
(* Pending paths and the child-ordering rule.                               *)
(***************************************************************************)
\* a drain_filter_strip that returns the stripped paths last first
drain_filter_strip_reversed(v, name) ==
  IF ~v.some THEN [v |-> v, out |-> << >>]
  ELSE LET starts(x) == Len(x) > 0 /\ x[1] = name
           kept(x) == ~starts(x)
           hit == SelectSeq(v.v, starts)
       IN [v |-> Some(SelectSeq(v.v, kept)),
           out |-> [i \in 1..Len(hit) |-> Tail(hit[Len(hit) + 1 - i])]]

\* drain_filter_strip: the paths of v that start with name leave v and are
\* returned without that component.  A path is its sequence of components.
drain_filter_strip(v, name) ==
  IF ~v.some THEN [v |-> v, out |-> << >>]
  ELSE LET starts(x) == Len(x) > 0 /\ x[1] = name
           kept(x) == ~starts(x)
           strip(x) == Tail(x)
           hit == SelectSeq(v.v, starts)
       IN [v |-> Some(SelectSeq(v.v, kept)),
           out |-> [i \in 1..Len(hit) |-> strip(hit[i])]]

\* drain_filter(|x| x.components().next().is_none()): the non-empty paths that stay
drop_empty(paths) ==
  LET nonempty(x) == Len(x) > 0 IN SelectSeq(paths, nonempty)

has_empty(paths) == \E i \in 1..Len(paths) : Len(paths[i]) = 0

IsPom(e) == e.kind = "Blob" /\ e.name = "pom.xml"

\* prepare_dir_exploration without the swap that gives pom.xml its priority
prepare_dir_exploration_no_swap(tree, dir_path) ==
  LET children_objects == Trees[tree]
      P == {i \in 1..Len(children_objects) : IsPom(children_objects[i])}
  IN IF dir_path = << >> /\ P # {}
     THEN Reverse(children_objects)
     ELSE children_objects

\* prepare_dir_exploration of handle_maven_module and of fast_fwd: the vector the
\* frame pops from (pop takes the last element).
prepare_dir_exploration(tree, dir_path) ==
  LET children_objects == Trees[tree]
      P == {i \in 1..Len(children_objects) : IsPom(children_objects[i])}
  IN IF dir_path = << >> /\ P # {}
     THEN Reverse(Swap(children_objects, 1, Min(P)))
     ELSE children_objects

\* tree.iter().rev() of handle_java_src
prepare_java(tree) == Reverse(Trees[tree])

\* PreProcessedRepository::is_handled
is_handled(name) == name \in JavaNames \/ name \in XmlNames

\* name.ends_with(".java")
ends_with_java(name) == name \in JavaNames

(***************************************************************************)
(* Directory accumulators.                                                  *)
(***************************************************************************)
\* MavenModuleAcc::new
MavenModuleAcc_new(name) ==
  [name |-> name, children |-> << >>, children_names |-> << >>, metrics |-> DefaultMetrics,
   sub_modules |-> None, main_dirs |-> None, test_dirs |-> None]

\* MavenModuleAcc::with_content
MavenModuleAcc_with_content(name, sub_modules, main_dirs, test_dirs) ==
  [name |-> name, children |-> << >>, children_names |-> << >>, metrics |-> DefaultMetrics,
   sub_modules |-> Some(sub_modules), main_dirs |-> Some(main_dirs),
   test_dirs |-> Some(test_dirs)]

\* what every attach does to children, children_names and metrics
acc_push(acc, name, id, metrics) ==
  [acc EXCEPT !.children = Append(@, id),
              !.children_names = Append(@, name),
              !.metrics = metrics_acc(@, metrics)]

\* MavenModuleAcc::push_submodule(name, (NodeIdentifier, MD))
push_submodule(acc, name, full_node) == acc_push(acc, name, full_node.id, full_node.md.metrics)

\* MavenModuleAcc::push_source_directory(name, Local)
push_source_directory(acc, name, local) ==
  acc_push(acc, name, local.compressed_node, local.metrics)

\* MavenModuleAcc::push_test_source_directory(name, Local)
push_test_source_directory(acc, name, local) ==
  acc_push(acc, name, local.compressed_node, local.metrics)

extend(opt, paths) == IF opt.some THEN Some(opt.v \o paths) ELSE Some(paths)

\* MavenModuleAcc::push_pom(name, POM): the pom's node, and the module's pending
\* paths as the pom declares them
push_pom(acc, name, pom) ==
  [acc_push(acc, name, pom.compressed_node, pom.metrics)
     EXCEPT !.sub_modules = extend(@, pom.sub_modules),
            !.main_dirs = extend(@, pom.main_dirs),
            !.test_dirs = extend(@, pom.test_dirs)]

\* JavaAcc::new
JavaAcc_new(name) ==
  [name |-> name, children |-> << >>, children_names |-> << >>, metrics |-> DefaultMetrics,
   ana |-> PartialAnalysis_default, skiped_ana |-> FALSE]

\* the analysis of a child is merged while it is within the budget and nothing
\* was skipped; otherwise the accumulator is marked skiped_ana
merge_ana(acc, ana, skiped_ana) ==
  IF refs_count(ana) < MAX_REFS /\ ~skiped_ana /\ ~acc.skiped_ana
  THEN [acc EXCEPT !.ana = ana_acc(ana, @)]
  ELSE [acc EXCEPT !.skiped_ana = TRUE]

\* JavaAcc::push(name, Local)
JavaAcc_push(acc, name, local) ==
  merge_ana(acc_push(acc, name, local.compressed_node, local.metrics), local.ana, FALSE)

\* push_dir that does not look at the flag of the child
JavaAcc_push_dir_flag_dropped(acc, name, local, skiped_ana) ==
  merge_ana(acc_push(acc, name, local.compressed_node, local.metrics), local.ana, FALSE)

\* JavaAcc::push_dir(name, Local, skiped_ana)
JavaAcc_push_dir(acc, name, local, skiped_ana) ==
  merge_ana(acc_push(acc, name, local.compressed_node, local.metrics), local.ana, skiped_ana)

\* CppAcc::new
CppAcc_new(name) ==
  [name |-> name, children |-> << >>, children_names |-> << >>, metrics |-> DefaultMetrics]

\* CppAcc::push without the push on children_names
CppAcc_push_child_only(acc, name, full_node, skiped_ana) ==
  [acc EXCEPT !.children = Append(@, full_node.compressed_node),
              !.metrics = metrics_acc(@, full_node.metrics)]

\* CppAcc::push(name, full_node, skiped_ana)
CppAcc_push(acc, name, full_node, skiped_ana) ==
  [acc EXCEPT !.children = Append(@, full_node.compressed_node),
              !.children_names = Append(@, name),
              !.metrics = metrics_acc(@, full_node.metrics)]

\* tree_sitter_parse: Ok(tree) for a good CST, Err(tree) with the best-effort tree
tree_sitter_parse_ok(b) == Blobs[b].parse_ok

\* what a per-file handler returns is Ok, unless the CST is bad and the build
\* propagates the error
handler_ok(b) == tree_sitter_parse_ok(b) \/ ~PROPAGATE_ERROR_ON_BAD_CST_NODE

\* handle_cpp_file that goes on with the best-effort tree in every build
handle_cpp_file_error_swallowed(ns, ls, name, b) ==
  LET g == generate_file(ns, ls, "cpp_TranslationUnit", name, b)
  IN [ok |-> TRUE, ns |-> g.ns, ls |-> g.ls, local |-> g.local]

\* handle_cpp_file(tree_gen, name, text): ok is Ok(..), local the node generated
handle_cpp_file(ns, ls, name, b) ==
  LET g == generate_file(ns, ls, "cpp_TranslationUnit", name, b)
  IN IF ~tree_sitter_parse_ok(b) /\ PROPAGATE_ERROR_ON_BAD_CST_NODE
     THEN [ok |-> FALSE, ns |-> ns, ls |-> ls]
     ELSE [ok |-> TRUE, ns |-> g.ns, ls |-> g.ls, local |-> g.local]

\* handle_pom_file: the POM of a pom.xml blob
handle_pom_file(ns, ls, name, b) ==
  LET g == generate_file(ns, ls, "xml_SourceFile", name, b)
  IN [ns |-> g.ns, ls |-> g.ls,
      pom |-> [compressed_node |-> g.local.compressed_node, metrics |-> g.local.metrics,
               sub_modules |-> Blobs[b].sub_modules, main_dirs |-> Blobs[b].main_dirs,
               test_dirs |-> Blobs[b].test_dirs]]

\* the insert of a parsed file that records nothing
memo_java_file_not_recorded(m, oid, local) == m

\* object_map_java.insert(a.id(), (full_node.clone(), false))
memo_java_file(m, oid, local) ==
  [x \in DOMAIN m \cup {oid} |->
     IF x = oid THEN [local |-> local, skiped_ana |-> FALSE] ELSE m[x]]

\* handle_java_file
handle_java_file(ns, ls, name, b) ==
  LET g == generate_file(ns, ls, "java_Program", name, b)
  IN [ns |-> g.ns, ls |-> g.ls,
      local |-> [compressed_node |-> g.local.compressed_node, metrics |-> g.local.metrics,
                 ana |-> [refs |-> Blobs[b].refs, solvable |-> Blobs[b].solvable]]]

(***************************************************************************)
(* The fold of an exhausted frame ("commit node").                          *)
(***************************************************************************)
\* has_parent_refs that looks at the sub-modules only
has_parent_refs_in_sub_modules(acc) == drain_filter_strip(acc.sub_modules, "..").out # << >>

\* a pending path that starts with `..` is left at the fold: todo!()
has_parent_refs(acc) ==
  \/ drain_filter_strip(acc.sub_modules, "..").out # << >>
  \/ drain_filter_strip(acc.main_dirs, "..").out # << >>
  \/ drain_filter_strip(acc.test_dirs, "..").out # << >>

\* handle_maven_module and fast_fwd: the node of a MavenModuleAcc
fold_maven(ns, ls, acc) ==
  LET dir_hash == hash32_type("MavenDirectory")
      hashs == fold_hashs(dir_hash, acc.name, acc.metrics)
      label == label_id(ls, acc.name)
      occ == dir_occupied(ns, hashs.syntax, "MavenDirectory", label, acc.children)
      panic == \/ has_parent_refs(acc)
               \/ occ = {} /\ Len(acc.children_names) # Len(acc.children)
      node_id == IF occ # {} THEN Min(occ) ELSE Len(ns) + 1
  IN [panic |-> panic,
      ls |-> label_intern(ls, acc.name),
      ns |-> IF panic \/ occ # {} THEN ns
             ELSE Append(ns, maven_dir_tuple(label, hashs, acc.children_names, acc.children)),
      full_node |-> [id |-> node_id, md |-> [metrics |-> fold_metrics(acc.metrics, hashs)]]]

\* handle_java_src: the node of a JavaAcc
fold_java(ns, ls, acc) ==
  LET dir_hash == hash32_type("Directory")
      hashs == fold_hashs(dir_hash, acc.name, acc.metrics)
      label == label_id(ls, acc.name)
      occ == dir_occupied(ns, hashs.syntax, "Directory", label, acc.children)
      panic == /\ occ = {}
               /\ Len(acc.children) # 0
               /\ Len(acc.children_names) # Len(acc.children)
      node_id == IF occ # {} THEN Min(occ) ELSE Len(ns) + 1
      ana == IF refs_count(acc.ana) < MAX_REFS THEN resolve(acc.ana) ELSE acc.ana
  IN [panic |-> panic,
      ls |-> label_intern(ls, acc.name),
      ns |-> IF panic \/ occ # {} THEN ns
             ELSE Append(ns, java_dir_tuple(label, hashs, acc.metrics, acc.children_names,
                                            acc.children,
                                            bloom_of(refs_count(ana), acc.skiped_ana))),
      local |-> [compressed_node |-> node_id, metrics |-> fold_metrics(acc.metrics, hashs),
                 ana |-> ana]]

(***************************************************************************)
(* State.                                                                   *)
(***************************************************************************)
VARIABLES
  node_store,       \* main_stores.node_store
  label_store,      \* main_stores.label_store
  object_map,       \* tree OID -> (NodeIdentifier, MD)
  object_map_pom,   \* blob OID -> POM
  object_map_java,  \* tree or blob OID -> (Local, skiped_ana)
  commits,          \* commit OID -> Commit
  pc,               \* "idle", the loop that runs ("maven", "fast_fwd", "java_src"), "aborted"
  req,              \* the call in progress
  dir_path,         \* the components of module_path not consumed yet
  stack,            \* the stack of handle_maven_module or fast_fwd
  jstack,           \* the stack of the handle_java_src call in progress
  jret,             \* what the caller of handle_java_src does with its result
  cpp_acc,          \* a CppAcc
  log,              \* history: the pops, pushes, attaches and folds of the ingestion
  nfid,             \* history: number of frames pushed in the ingestion
  history,          \* history: one record per ingestion that returned
  last_fold,        \* history: the last fold, its accumulator and its result
  last_hit,         \* history: the last memo hit
  cpp_attached,     \* history: the arguments of the pushes on cpp_acc
  cpp_ret,          \* history: the calls of handle_cpp_file and what they returned
  java_md_cache,    \* the metadata cache of the Java generator
  rw,               \* the call of pre_process or pre_process_no_maven, its revwalk
  parsed,           \* history: the calls of the parsers of the file handlers
  purges,           \* history: the repository at each call of purge_caches
  last_query,       \* the last call of a query operation and what it returned
  drained           \* a call of drain_filter_strip: its arguments, what it left and returned

vars ==
  << node_store, label_store, object_map, object_map_pom, object_map_java, commits, pc, req,
     dir_path, stack, jstack, jret, cpp_acc, log, nfid, history, last_fold, last_hit,
     cpp_attached, inputs, cpp_ret, java_md_cache, rw, parsed, purges, last_query, drained >>

driver == << java_md_cache, rw, parsed, purges, last_query >>

\* what an ingestion, a purge and a query leave alone
fixed == << inputs, drained >>

stores == << node_store, label_store >>

memos == << object_map, object_map_pom, object_map_java >>

EmptyMap == [x \in {} |-> 0]

MapPut(m, k, v) == [x \in DOMAIN m \cup {k} |-> IF x = k THEN v ELSE m[x]]

NoFold == [some |-> FALSE]

NoHit == [some |-> FALSE]

NoWalk == [some |-> FALSE, returned |-> FALSE]

NoQuery == [some |-> FALSE]

NoDrain == [some |-> FALSE]

\* PreProcessedRepository::new, CppAcc::new
New ==
  /\ node_store = << >>
  /\ label_store = << >>
  /\ object_map = EmptyMap
  /\ object_map_pom = EmptyMap
  /\ object_map_java = EmptyMap
  /\ commits = EmptyMap
  /\ pc = "idle"
  /\ req = None
  /\ dir_path = << >>
  /\ stack = << >>
  /\ jstack = << >>
  /\ jret = None
  /\ cpp_acc = CppAcc_new("cpp")
  /\ log = << >>
  /\ nfid = 0
  /\ history = << >>
  /\ last_fold = NoFold
  /\ last_hit = NoHit
  /\ cpp_attached = << >>
  /\ cpp_ret = << >>
  /\ java_md_cache = {}
  /\ rw = NoWalk
  /\ parsed = << >>
  /\ purges = << >>
  /\ last_query = NoQuery

Init ==
  New /\ drained = NoDrain /\ a_java_refs = 9 /\ PROPAGATE_ERROR_ON_BAD_CST_NODE \in BOOLEAN

\* the reference counts A.java is given when the bloom tiers are explored: around
\* every threshold of the tier table, and at the budget
RefCounts ==
  {0, 1, 2, 9, 10, 16, 17, 31, 32, 101, 102, 151, 152, 201, 257, 258, 513, 514, 1025, 1026,
   2049, 2050, 3001, MAX_REFS - 1, MAX_REFS}

BloomInit ==
  New /\ drained = NoDrain /\ a_java_refs \in RefCounts /\ PROPAGATE_ERROR_ON_BAD_CST_NODE \in BOOLEAN

(***************************************************************************)
(* Frames and the history of an ingestion.                                  *)
(***************************************************************************)
\* a stack frame (Oid, Vec<BasicGitObjects>, accumulator); fid and attached are history
Frame(oid, children, acc, fid) ==
  [oid |-> oid, children |-> children, acc |-> acc, fid |-> fid, attached |-> << >>]

Top(stk) == stk[Len(stk)]

\* a pop that leaves the child on the frame
PopChild_left_in_place(stk) == stk

\* stack.last_mut().1.pop()
PopChild(stk) == [stk EXCEPT ![Len(stk)].children = Front(@)]

\* the top frame with accumulator acc after the attach of (name, id, metrics)
Attach(stk, acc, name, id, metrics) ==
  [stk EXCEPT ![Len(stk)].acc = acc,
              ![Len(stk)].attached = Append(@, [name |-> name, id |-> id, metrics |-> metrics])]

\* a call of the parser of a file handler on the blob b
ParseCall(handler, b, ok) == [handler |-> handler, blob |-> b, ok |-> ok]

\* a clear that only drops the child just popped
clear_popped_only(stk) == PopChild(stk)

\* stack.last_mut().1.clear()
clear(stk) == [stk EXCEPT ![Len(stk)].children = << >>]

\* a push that puts the new frame under the frames of the stack
PushFrame_at_bottom(stk, frame) == << frame >> \o stk

\* a push that puts the new frame in the place of the top frame
PushFrame_over_top(stk, frame) == Append(Front(stk), frame)

\* stack.push
PushFrame(stk, frame) == Append(stk, frame)

EvEnter(fid, parent, e, loop, exhausted) ==
  [ev |-> "enter", frame |-> fid, parent |-> parent, name |-> e.name, oid |-> e.oid,
   loop |-> loop, exhausted |-> exhausted]

EvPop(fid, e) == [ev |-> "pop", frame |-> fid, entry |-> e]

EvAttach(fid, name, id, child, via) ==
  [ev |-> "attach", frame |-> fid, name |-> name, id |-> id, child |-> child, via |-> via]

EvFold(fid, oid, id) == [ev |-> "fold", frame |-> fid, oid |-> oid, id |-> id]

Fold(kind, frame, id, metrics, inserted, ana) ==
  [some |-> TRUE, kind |-> kind, acc |-> frame.acc, attached |-> frame.attached, id |-> id,
   metrics |-> metrics, inserted |-> inserted, ana |-> ana]

Hit(map, e, id, metrics) ==
  [some |-> TRUE, map |-> map, entry |-> e, id |-> id, metrics |-> metrics]

(***************************************************************************)
(* Entry points.                                                            *)
(***************************************************************************)
RootEntry(r) == TreeEntry(CommitTree[r.commit], "")

\* the keys of the memo maps
Known ==
  [object_map |-> DOMAIN object_map, object_map_pom |-> DOMAIN object_map_pom,
   object_map_java |-> DOMAIN object_map_java]

Walking == rw.some /\ ~rw.returned

\* for_each(|oid| ..): the call is the one the revwalk in progress makes next; a
\* call outside a revwalk is the call of a revwalk that enumerates one commit
Drives(r) ==
  Walking
    => /\ rw.taken < Take
       /\ rw.taken < Len(rw.oids)
       /\ r = [mode |-> rw.mode, commit |-> rw.oids[rw.taken + 1], module_path |-> rw.dir_path]

\* a panic, an unwrap of None or Err, a failed assertion: the process ends
Abort ==
  /\ pc' = "aborted"
  /\ UNCHANGED << node_store, label_store, object_map, object_map_pom, object_map_java,
                  commits, req, dir_path, stack, jstack, jret, cpp_acc, log, nfid, history,
                  last_fold, last_hit, cpp_attached, fixed, cpp_ret, driver >>

Enter(r, loop) ==
  /\ pc = "idle"
  /\ Len(history) < MaxCommits
  /\ cpp_attached = << >>
  /\ cpp_ret = << >>
  /\ Drives(r)
  /\ rw' = IF Walking THEN [rw EXCEPT !.taken = @ + 1] ELSE rw
  /\ pc' = loop
  /\ req' = [some |-> TRUE, r |-> r, nodes_before |-> Len(node_store), known |-> Known]
  /\ dir_path' = r.module_path
  /\ stack' = << Frame(CommitTree[r.commit],
                       prepare_dir_exploration(CommitTree[r.commit], r.module_path),
                       MavenModuleAcc_new(""), 1) >>
  /\ log' = << EvEnter(1, 0, RootEntry(r), loop, r.module_path = << >>) >>
  /\ nfid' = 1
  /\ last_fold' = NoFold
  /\ last_hit' = NoHit
  /\ last_query' = NoQuery
  /\ UNCHANGED << stores, memos, commits, jstack, jret, cpp_acc, history, cpp_attached, fixed,
                  cpp_ret, java_md_cache, parsed, purges >>

\* handle_maven_commit, up to the first iteration of handle_maven_module
handle_maven_commit(r) == r.mode = "maven" /\ Enter(r, "maven")

\* handle_java_commit, up to the first iteration of fast_fwd
handle_java_commit(r) == r.mode = "java" /\ Enter(r, "fast_fwd")

\* the loop ends: the Commit is built and pre_process records it
Return(ns, full_node) ==
  /\ pc' = "idle"
  /\ req' = None
  /\ commits' = MapPut(commits, req.r.commit,
                       [ast_root |-> full_node.id, meta_data |-> full_node.md])
  /\ history' = Append(history, [r |-> req.r, tree |-> CommitTree[req.r.commit],
                                 ast_root |-> full_node.id,
                                 nodes_before |-> req.nodes_before,
                                 nodes_after |-> Len(ns), known |-> req.known])

(***************************************************************************)
(* handle_maven_module and fast_fwd: one iteration of the loop.             *)
(***************************************************************************)
HasChild == stack # << >> /\ Top(stack).children # << >>

Cur == Last(Top(stack).children)

\* a subtree while the descent path is not exhausted, its name the next component
Descend(loop) ==
  /\ pc = loop
  /\ HasChild
  /\ Cur.kind = "Tree"
  /\ dir_path # << >>
  /\ Cur.name = Head(dir_path)
  /\ dir_path' = Tail(dir_path)
  /\ stack' = PushFrame(clear(stack),
                        Frame(Cur.oid, prepare_dir_exploration(Cur.oid, Tail(dir_path)),
                              MavenModuleAcc_new(Cur.name), nfid + 1))
  /\ nfid' = nfid + 1
  /\ log' = log \o << EvPop(Top(stack).fid, Cur),
                      EvEnter(nfid + 1, Top(stack).fid, Cur, loop, Tail(dir_path) = << >>) >>
  /\ UNCHANGED << stores, memos, commits, pc, req, jstack, jret, cpp_acc, history, last_fold,
                  last_hit, cpp_attached, fixed, cpp_ret, driver >>

\* a continue that consumes the component that did not match
SkipTree_component_consumed(loop) ==
  /\ pc = loop
  /\ HasChild
  /\ Cur.kind = "Tree"
  /\ dir_path # << >>
  /\ Cur.name # Head(dir_path)
  /\ dir_path' = Tail(dir_path)
  /\ stack' = PopChild(stack)
  /\ log' = Append(log, EvPop(Top(stack).fid, Cur))
  /\ UNCHANGED << stores, memos, commits, pc, req, jstack, jret, cpp_acc, nfid,
                  history, last_fold, last_hit, cpp_attached, fixed, cpp_ret, driver >>

\* a subtree while the descent path is not exhausted, another name: continue
SkipTree(loop) ==
  /\ pc = loop
  /\ HasChild
  /\ Cur.kind = "Tree"
  /\ dir_path # << >>
  /\ Cur.name # Head(dir_path)
  /\ stack' = PopChild(stack)
  /\ log' = Append(log, EvPop(Top(stack).fid, Cur))
  /\ UNCHANGED << stores, memos, commits, pc, req, dir_path, jstack, jret, cpp_acc, nfid,
                  history, last_fold, last_hit, cpp_attached, fixed, cpp_ret, driver >>

\* handle_maven_module: a subtree found in object_map
MavenMemoHit ==
  /\ pc = "maven"
  /\ HasChild
  /\ Cur.kind = "Tree"
  /\ dir_path = << >>
  /\ Cur.oid \in DOMAIN object_map
  /\ LET full_node == object_map[Cur.oid]
         name == label_id(label_store, Cur.name)
         w == Top(stack).acc
     IN IF name \in Range(w.children_names) THEN Abort
        ELSE /\ label_store' = label_intern(label_store, Cur.name)
             /\ stack' = Attach(PopChild(stack), push_submodule(w, name, full_node), name,
                                full_node.id, full_node.md.metrics)
             /\ log' = log \o << EvPop(Top(stack).fid, Cur),
                                 EvAttach(Top(stack).fid, name, full_node.id, 0,
                                          "push_submodule") >>
             /\ last_hit' = Hit("object_map", Cur, full_node.id, full_node.md.metrics)
             /\ UNCHANGED << node_store, memos, commits, pc, req, dir_path, jstack, jret,
                             cpp_acc, nfid, history, last_fold, cpp_attached, fixed, cpp_ret, driver >>

\* a classification that takes the main directories for the test directories
Strip_main_and_test_exchanged(acc, name) ==
  LET sm == drain_filter_strip(acc.sub_modules, name)
      md == drain_filter_strip(acc.main_dirs, name)
      td == drain_filter_strip(acc.test_dirs, name)
  IN [parent_acc |-> [acc EXCEPT !.sub_modules = sm.v, !.main_dirs = md.v,
                                 !.test_dirs = td.v],
      is_source_dir |-> has_empty(td.out),
      is_test_source_dir |-> has_empty(md.out),
      is_maven_module |-> has_empty(sm.out),
      new_sub_modules |-> drop_empty(sm.out),
      new_main_dirs |-> drop_empty(md.out),
      new_test_dirs |-> drop_empty(td.out)]

\* handle_maven_module, memo miss: the parent's pending paths stripped of the name
Strip(acc, name) ==
  LET sm == drain_filter_strip(acc.sub_modules, name)
      md == drain_filter_strip(acc.main_dirs, name)
      td == drain_filter_strip(acc.test_dirs, name)
  IN [parent_acc |-> [acc EXCEPT !.sub_modules = sm.v, !.main_dirs = md.v,
                                 !.test_dirs = td.v],
      is_source_dir |-> has_empty(md.out),
      is_test_source_dir |-> has_empty(td.out),
      is_maven_module |-> has_empty(sm.out),
      new_sub_modules |-> drop_empty(sm.out),
      new_main_dirs |-> drop_empty(md.out),
      new_test_dirs |-> drop_empty(td.out)]

\* the conditions under which the miss pushes a Maven frame for the subtree
PushesFrame(c) ==
  \/ c.is_maven_module
  \/ c.new_sub_modules # << >>
  \/ c.new_main_dirs # << >>
  \/ c.new_test_dirs # << >>
  \/ ~(c.is_source_dir \/ c.is_test_source_dir)

MavenFrame(e, c, fid) ==
  Frame(e.oid, prepare_dir_exploration(e.oid, dir_path),
        MavenModuleAcc_with_content(e.name, c.new_sub_modules, c.new_main_dirs,
                                    c.new_test_dirs), fid)

MavenMiss ==
  /\ pc = "maven"
  /\ HasChild
  /\ Cur.kind = "Tree"
  /\ dir_path = << >>
  /\ Cur.oid \notin DOMAIN object_map

\* handle_maven_module: a subtree that is neither a main nor a test source root
MavenEnterDir ==
  /\ MavenMiss
  /\ LET c == Strip(Top(stack).acc, Cur.name)
     IN /\ ~(c.is_source_dir \/ c.is_test_source_dir)
        /\ stack' = PushFrame([PopChild(stack) EXCEPT ![Len(stack)].acc = c.parent_acc],
                              MavenFrame(Cur, c, nfid + 1))
        /\ log' = log \o << EvPop(Top(stack).fid, Cur),
                            EvEnter(nfid + 1, Top(stack).fid, Cur, "maven", TRUE) >>
  /\ nfid' = nfid + 1
  /\ UNCHANGED << stores, memos, commits, pc, req, dir_path, jstack, jret, cpp_acc, history,
                  last_fold, last_hit, cpp_attached, fixed, cpp_ret, driver >>

\* handle_maven_module: a main or test source root, the call of handle_java_src
MavenSourceDir ==
  /\ MavenMiss
  /\ LET c == Strip(Top(stack).acc, Cur.name)
     IN /\ c.is_source_dir \/ c.is_test_source_dir
        /\ stack' = [PopChild(stack) EXCEPT ![Len(stack)].acc = c.parent_acc]
        /\ jret' = [some |-> TRUE, caller |-> "maven", entry |-> Cur, c |-> c]
  /\ jstack' = << Frame(Cur.oid, prepare_java(Cur.oid), JavaAcc_new(Cur.name), nfid + 1) >>
  /\ log' = log \o << EvPop(Top(stack).fid, Cur),
                      EvEnter(nfid + 1, Top(stack).fid, Cur, "java_src", TRUE) >>
  /\ nfid' = nfid + 1
  /\ pc' = "java_src"
  /\ UNCHANGED << stores, memos, commits, req, dir_path, cpp_acc, history, last_fold,
                  last_hit, cpp_attached, fixed, cpp_ret, driver >>

\* handle_maven_module: a blob that is passed over
MavenSkipBlob ==
  /\ pc = "maven"
  /\ HasChild
  /\ Cur.kind = "Blob"
  /\ \/ dir_path # << >>
     \/ Cur.name # "pom.xml"
     \/ Cur.oid \notin DOMAIN object_map_pom /\ ~Blobs[Cur.oid].utf8
  /\ stack' = PopChild(stack)
  /\ log' = Append(log, EvPop(Top(stack).fid, Cur))
  /\ UNCHANGED << stores, memos, commits, pc, req, dir_path, jstack, jret, cpp_acc, nfid,
                  history, last_fold, last_hit, cpp_attached, fixed, cpp_ret, driver >>

\* handle_maven_module: pom.xml found in object_map_pom
MavenPomHit ==
  /\ pc = "maven"
  /\ HasChild
  /\ Cur.kind = "Blob"
  /\ dir_path = << >>
  /\ Cur.name = "pom.xml"
  /\ Cur.oid \in DOMAIN object_map_pom
  /\ LET full_node == object_map_pom[Cur.oid]
         name == label_id(label_store, Cur.name)
         w == Top(stack).acc
     IN IF name \in Range(w.children_names) THEN Abort
        ELSE /\ label_store' = label_intern(label_store, Cur.name)
             /\ stack' = Attach(PopChild(stack), push_pom(w, name, full_node), name,
                                full_node.compressed_node, full_node.metrics)
             /\ log' = log \o << EvPop(Top(stack).fid, Cur),
                                 EvAttach(Top(stack).fid, name, full_node.compressed_node, 0,
                                          "push_pom") >>
             /\ last_hit' = Hit("object_map_pom", Cur, full_node.compressed_node,
                                full_node.metrics)
             /\ UNCHANGED << node_store, memos, commits, pc, req, dir_path, jstack, jret,
                             cpp_acc, nfid, history, last_fold, cpp_attached, fixed, cpp_ret, driver >>

\* handle_maven_module: pom.xml parsed by the POM handler
MavenPomParse ==
  /\ pc = "maven"
  /\ HasChild
  /\ Cur.kind = "Blob"
  /\ dir_path = << >>
  /\ Cur.name = "pom.xml"
  /\ Cur.oid \notin DOMAIN object_map_pom
  /\ Blobs[Cur.oid].utf8
  /\ \E g \in {handle_pom_file(node_store, label_store, Cur.name, Cur.oid)} :
     LET name == label_id(g.ls, Cur.name)
         parent_acc == Top(stack).acc
     IN IF ~handler_ok(Cur.oid) \/ name \in Range(parent_acc.children_names) THEN Abort
        ELSE /\ node_store' = g.ns
             /\ label_store' = g.ls
             /\ object_map_pom' = MapPut(object_map_pom, Cur.oid, g.pom)
             /\ stack' = Attach(PopChild(stack), push_pom(parent_acc, name, g.pom), name,
                                g.pom.compressed_node, g.pom.metrics)
             /\ log' = log \o << EvPop(Top(stack).fid, Cur),
                                 EvAttach(Top(stack).fid, name, g.pom.compressed_node, 0,
                                          "push_pom") >>
             /\ parsed' = Append(parsed, ParseCall("handle_pom_file", Cur.oid, TRUE))
             /\ UNCHANGED << object_map, object_map_java, commits, pc, req, dir_path, jstack,
                             jret, cpp_acc, nfid, history, last_fold, last_hit, cpp_attached,
                             fixed, cpp_ret, java_md_cache, rw, purges, last_query >>

\* handle_maven_module and fast_fwd: the top frame is exhausted
FoldMaven(loop) ==
  /\ pc = loop
  /\ stack # << >>
  /\ Top(stack).children = << >>
  /\ \E f \in {fold_maven(node_store, label_store, Top(stack).acc)} :
     LET frame == Top(stack)
         rest == Front(stack)
         name == label_id(f.ls, frame.acc.name)
     IN IF f.panic THEN Abort
        ELSE /\ node_store' = f.ns
             /\ label_store' = f.ls
             /\ object_map' = MapPut(object_map, frame.oid, f.full_node)
             /\ last_fold' = Fold("MavenDirectory", frame, f.full_node.id,
                                  f.full_node.md.metrics, f.full_node.id > Len(node_store),
                                  PartialAnalysis_default)
             /\ IF rest = << >>
                THEN /\ Return(f.ns, f.full_node)
                     /\ stack' = rest
                     /\ log' = Append(log, EvFold(frame.fid, frame.oid, f.full_node.id))
                ELSE IF name \in Range(Top(rest).acc.children_names)
                THEN /\ pc' = "aborted"
                     /\ stack' = rest
                     /\ log' = Append(log, EvFold(frame.fid, frame.oid, f.full_node.id))
                     /\ UNCHANGED << req, commits, history >>
                ELSE /\ stack' = Attach(rest, push_submodule(Top(rest).acc, name, f.full_node),
                                        name, f.full_node.id, f.full_node.md.metrics)
                     /\ log' = log \o << EvFold(frame.fid, frame.oid, f.full_node.id),
                                         EvAttach(Top(rest).fid, name, f.full_node.id,
                                                  frame.fid, "push_submodule") >>
                     /\ UNCHANGED << pc, req, commits, history >>
             /\ UNCHANGED << object_map_pom, object_map_java, dir_path, jstack, jret, cpp_acc,
                             nfid, last_hit, cpp_attached, fixed, cpp_ret, driver >>

\* fast_fwd: a subtree found in object_map
FastFwdMemoHit ==
  /\ pc = "fast_fwd"
  /\ HasChild
  /\ Cur.kind = "Tree"
  /\ dir_path = << >>
  /\ Cur.oid \in DOMAIN object_map
  /\ LET full_node == object_map[Cur.oid]
         name == label_id(label_store, Cur.name)
         already_name == get_label(node_store[full_node.id])
         w == Top(stack).acc
     IN IF name # already_name \/ name \in Range(w.children_names) THEN Abort
        ELSE /\ label_store' = label_intern(label_store, Cur.name)
             /\ stack' = Attach(PopChild(stack), push_submodule(w, name, full_node), name,
                                full_node.id, full_node.md.metrics)
             /\ log' = log \o << EvPop(Top(stack).fid, Cur),
                                 EvAttach(Top(stack).fid, name, full_node.id, 0,
                                          "push_submodule") >>
             /\ last_hit' = Hit("object_map", Cur, full_node.id, full_node.md.metrics)
             /\ UNCHANGED << node_store, memos, commits, pc, req, dir_path, jstack, jret,
                             cpp_acc, nfid, history, last_fold, cpp_attached, fixed, cpp_ret, driver >>

\* fast_fwd: any other subtree, the call of handle_java_src
FastFwdSourceDir ==
  /\ pc = "fast_fwd"
  /\ HasChild
  /\ Cur.kind = "Tree"
  /\ dir_path = << >>
  /\ Cur.oid \notin DOMAIN object_map
  /\ stack' = PopChild(stack)
  /\ jret' = [some |-> TRUE, caller |-> "fast_fwd", entry |-> Cur]
  /\ jstack' = << Frame(Cur.oid, prepare_java(Cur.oid), JavaAcc_new(Cur.name), nfid + 1) >>
  /\ log' = log \o << EvPop(Top(stack).fid, Cur),
                      EvEnter(nfid + 1, Top(stack).fid, Cur, "java_src", TRUE) >>
  /\ nfid' = nfid + 1
  /\ pc' = "java_src"
  /\ UNCHANGED << stores, memos, commits, req, dir_path, cpp_acc, history, last_fold,
                  last_hit, cpp_attached, fixed, cpp_ret, driver >>

\* fast_fwd that handles pom.xml as handle_maven_module does
FastFwdSkipBlob_pom_pushed ==
  /\ pc = "fast_fwd"
  /\ HasChild
  /\ Cur.kind = "Blob"
  /\ IF IsPom(Cur) /\ dir_path = << >> /\ Blobs[Cur.oid].utf8 /\ handler_ok(Cur.oid)
     THEN \E g \in {handle_pom_file(node_store, label_store, Cur.name, Cur.oid)} :
            /\ node_store' = g.ns
            /\ label_store' = g.ls
            /\ stack' = Attach(PopChild(stack),
                               push_pom(Top(stack).acc, label_id(g.ls, Cur.name), g.pom),
                               label_id(g.ls, Cur.name), g.pom.compressed_node, g.pom.metrics)
     ELSE /\ stack' = PopChild(stack)
          /\ UNCHANGED stores
  /\ log' = Append(log, EvPop(Top(stack).fid, Cur))
  /\ UNCHANGED << memos, commits, pc, req, dir_path, jstack, jret, cpp_acc, nfid,
                  history, last_fold, last_hit, cpp_attached, fixed, cpp_ret, driver >>

\* fast_fwd: every blob is passed over
FastFwdSkipBlob ==
  /\ pc = "fast_fwd"
  /\ HasChild
  /\ Cur.kind = "Blob"
  /\ stack' = PopChild(stack)
  /\ log' = Append(log, EvPop(Top(stack).fid, Cur))
  /\ UNCHANGED << stores, memos, commits, pc, req, dir_path, jstack, jret, cpp_acc, nfid,
                  history, last_fold, last_hit, cpp_attached, fixed, cpp_ret, driver >>

(***************************************************************************)
(* handle_java_src: one iteration of the loop.                              *)
(***************************************************************************)
JHasChild == jstack # << >> /\ Top(jstack).children # << >>

JCur == Last(Top(jstack).children)

\* a subtree found in object_map_java
JavaTreeHit ==
  /\ pc = "java_src"
  /\ JHasChild
  /\ JCur.kind = "Tree"
  /\ JCur.oid \in DOMAIN object_map_java
  /\ LET full_node == object_map_java[JCur.oid].local
         skiped_ana == object_map_java[JCur.oid].skiped_ana
         name == label_get(label_store, JCur.name)
         w == Top(jstack).acc
     IN IF \/ name = 0
           \/ name # get_label(node_store[full_node.compressed_node])
           \/ name \in Range(w.children_names)
        THEN Abort
        ELSE /\ jstack' = Attach(PopChild(jstack),
                                 JavaAcc_push_dir(w, name, full_node, skiped_ana), name,
                                 full_node.compressed_node, full_node.metrics)
             /\ log' = log \o << EvPop(Top(jstack).fid, JCur),
                                 EvAttach(Top(jstack).fid, name, full_node.compressed_node, 0,
                                          "push_dir") >>
             /\ last_hit' = Hit("object_map_java", JCur, full_node.compressed_node,
                                full_node.metrics)
             /\ UNCHANGED << stores, memos, commits, pc, req, dir_path, stack, jret, cpp_acc,
                             nfid, history, last_fold, cpp_attached, fixed, cpp_ret, driver >>

\* a subtree not in object_map_java: a new JavaAcc frame
JavaEnterDir ==
  /\ pc = "java_src"
  /\ JHasChild
  /\ JCur.kind = "Tree"
  /\ JCur.oid \notin DOMAIN object_map_java
  /\ jstack' = PushFrame(PopChild(jstack),
                         Frame(JCur.oid, prepare_java(JCur.oid), JavaAcc_new(JCur.name),
                               nfid + 1))
  /\ log' = log \o << EvPop(Top(jstack).fid, JCur),
                      EvEnter(nfid + 1, Top(jstack).fid, JCur, "java_src", TRUE) >>
  /\ nfid' = nfid + 1
  /\ UNCHANGED << stores, memos, commits, pc, req, dir_path, stack, jret, cpp_acc, history,
                  last_fold, last_hit, cpp_attached, fixed, cpp_ret, driver >>

\* a blob that is passed over: not handled, or handled and new but not a .java
\* file, not UTF-8, or refused by the Java handler
JavaSkipBlob ==
  /\ pc = "java_src"
  /\ JHasChild
  /\ JCur.kind = "Blob"
  /\ \/ ~is_handled(JCur.name)
     \/ /\ JCur.oid \notin DOMAIN object_map_java
        /\ \/ ~ends_with_java(JCur.name)
           \/ ~Blobs[JCur.oid].utf8
           \/ ~handler_ok(JCur.oid)
  /\ jstack' = PopChild(jstack)
  /\ log' = Append(log, EvPop(Top(jstack).fid, JCur))
  /\ parsed' = IF /\ is_handled(JCur.name)
                  /\ JCur.oid \notin DOMAIN object_map_java
                  /\ ends_with_java(JCur.name)
                  /\ Blobs[JCur.oid].utf8
               THEN Append(parsed, ParseCall("handle_java_file", JCur.oid, FALSE))
               ELSE parsed
  /\ UNCHANGED << stores, memos, commits, pc, req, dir_path, stack, jret, cpp_acc, nfid,
                  history, last_fold, last_hit, cpp_attached, fixed, cpp_ret, java_md_cache,
                  rw, purges, last_query >>

\* a handled blob found in object_map_java
JavaBlobHit ==
  /\ pc = "java_src"
  /\ JHasChild
  /\ JCur.kind = "Blob"
  /\ is_handled(JCur.name)
  /\ JCur.oid \in DOMAIN object_map_java
  /\ LET full_node == object_map_java[JCur.oid].local
         name == label_id(label_store, JCur.name)
         w == Top(jstack).acc
     IN IF \/ name # get_label(node_store[full_node.compressed_node])
           \/ name \in Range(w.children_names)
        THEN Abort
        ELSE /\ label_store' = label_intern(label_store, JCur.name)
             /\ jstack' = Attach(PopChild(jstack), JavaAcc_push(w, name, full_node), name,
                                 full_node.compressed_node, full_node.metrics)
             /\ log' = log \o << EvPop(Top(jstack).fid, JCur),
                                 EvAttach(Top(jstack).fid, name, full_node.compressed_node, 0,
                                          "push") >>
             /\ last_hit' = Hit("object_map_java", JCur, full_node.compressed_node,
                                full_node.metrics)
             /\ UNCHANGED << node_store, memos, commits, pc, req, dir_path, stack, jret,
                             cpp_acc, nfid, history, last_fold, cpp_attached, fixed, cpp_ret, driver >>

\* a .java blob parsed by the Java handler
JavaBlobParse ==
  /\ pc = "java_src"
  /\ JHasChild
  /\ JCur.kind = "Blob"
  /\ is_handled(JCur.name)
  /\ JCur.oid \notin DOMAIN object_map_java
  /\ ends_with_java(JCur.name)
  /\ Blobs[JCur.oid].utf8
  /\ handler_ok(JCur.oid)
  /\ \E g \in {handle_java_file(node_store, label_store, JCur.name, JCur.oid)} :
     LET name == label_id(g.ls, JCur.name)
         w == Top(jstack).acc
     IN IF name \in Range(w.children_names)
        THEN Abort
        ELSE /\ node_store' = g.ns
             /\ label_store' = g.ls
             /\ object_map_java' = memo_java_file(object_map_java, JCur.oid, g.local)
             /\ java_md_cache' = java_md_cache \cup {g.local.compressed_node}
             /\ parsed' = Append(parsed, ParseCall("handle_java_file", JCur.oid, TRUE))
             /\ jstack' = Attach(PopChild(jstack), JavaAcc_push(w, name, g.local), name,
                                 g.local.compressed_node, g.local.metrics)
             /\ log' = log \o << EvPop(Top(jstack).fid, JCur),
                                 EvAttach(Top(jstack).fid, name, g.local.compressed_node, 0,
                                          "push") >>
             /\ UNCHANGED << object_map, object_map_pom, commits, pc, req, dir_path, stack,
                             jret, cpp_acc, nfid, history, last_fold, last_hit, cpp_attached,
                             fixed, cpp_ret, rw, purges, last_query >>

\* the top frame is exhausted and is not the initial frame of the call
JavaFold ==
  /\ pc = "java_src"
  /\ jstack # << >>
  /\ Top(jstack).children = << >>
  /\ Len(jstack) > 1
  /\ \E f \in {fold_java(node_store, label_store, Top(jstack).acc)} :
     LET frame == Top(jstack)
         rest == Front(jstack)
         name == label_id(f.ls, frame.acc.name)
     IN IF f.panic THEN Abort
        ELSE /\ node_store' = f.ns
             /\ label_store' = f.ls
             /\ object_map_java' = MapPut(object_map_java, frame.oid,
                                          [local |-> f.local,
                                           skiped_ana |-> frame.acc.skiped_ana])
             /\ last_fold' = Fold("Directory", frame, f.local.compressed_node, f.local.metrics,
                                  f.local.compressed_node > Len(node_store), f.local.ana)
             /\ IF name \in Range(Top(rest).acc.children_names)
                THEN /\ pc' = "aborted"
                     /\ jstack' = rest
                     /\ log' = Append(log, EvFold(frame.fid, frame.oid, f.local.compressed_node))
                ELSE /\ jstack' = Attach(rest,
                                         JavaAcc_push_dir(Top(rest).acc, name, f.local,
                                                          frame.acc.skiped_ana),
                                         name, f.local.compressed_node, f.local.metrics)
                     /\ log' = log \o << EvFold(frame.fid, frame.oid, f.local.compressed_node),
                                         EvAttach(Top(rest).fid, name, f.local.compressed_node,
                                                  frame.fid, "push_dir") >>
                     /\ pc' = pc
             /\ UNCHANGED << object_map, object_map_pom, commits, req, dir_path, stack, jret,
                             cpp_acc, nfid, history, last_hit, cpp_attached, fixed, cpp_ret, driver >>

\* the initial frame of the call is exhausted: handle_java_src returns its Local
\* and the caller attaches it; handle_maven_module may then push a Maven frame
\* for the same subtree
JavaReturn ==
  /\ pc = "java_src"
  /\ Len(jstack) = 1
  /\ Top(jstack).children = << >>
  /\ \E f \in {fold_java(node_store, label_store, Top(jstack).acc)} :
     LET frame == Top(jstack)
         e == jret.entry
         name == label_id(f.ls, e.name)
         paren_acc == Top(stack).acc
         id == f.local.compressed_node
         fold_ev == EvFold(frame.fid, frame.oid, id)
     IN IF f.panic THEN Abort
        ELSE /\ node_store' = f.ns
             /\ label_store' = f.ls
             /\ object_map_java' = MapPut(object_map_java, frame.oid,
                                          [local |-> f.local,
                                           skiped_ana |-> frame.acc.skiped_ana])
             /\ last_fold' = Fold("Directory", frame, id, f.local.metrics,
                                  id > Len(node_store), f.local.ana)
             /\ jstack' = << >>
             /\ jret' = None
             /\ IF name \in Range(paren_acc.children_names)
                THEN /\ pc' = "aborted"
                     /\ log' = Append(log, fold_ev)
                     /\ UNCHANGED << stack, nfid >>
                ELSE IF jret.caller = "fast_fwd"
                THEN /\ pc' = "fast_fwd"
                     /\ stack' = Attach(stack, push_source_directory(paren_acc, name, f.local),
                                        name, id, f.local.metrics)
                     /\ log' = log \o << fold_ev,
                                         EvAttach(Top(stack).fid, name, id, frame.fid,
                                                  "push_source_directory") >>
                     /\ nfid' = nfid
                ELSE LET via == IF jret.c.is_source_dir THEN "push_source_directory"
                                ELSE "push_test_source_directory"
                         acc2 == IF jret.c.is_source_dir
                                 THEN push_source_directory(paren_acc, name, f.local)
                                 ELSE push_test_source_directory(paren_acc, name, f.local)
                         attached == Attach(stack, acc2, name, id, f.local.metrics)
                         again == \/ jret.c.is_maven_module
                                  \/ jret.c.new_sub_modules # << >>
                                  \/ jret.c.new_main_dirs # << >>
                                  \/ jret.c.new_test_dirs # << >>
                     IN /\ pc' = "maven"
                        /\ stack' = IF again
                                    THEN PushFrame(attached, MavenFrame(e, jret.c, nfid + 1))
                                    ELSE attached
                        /\ nfid' = IF again THEN nfid + 1 ELSE nfid
                        /\ log' = log \o << fold_ev,
                                            EvAttach(Top(stack).fid, name, id, frame.fid, via) >>
                                   \o (IF again
                                       THEN << EvEnter(nfid + 1, Top(stack).fid, e, "maven",
                                                       TRUE) >>
                                       ELSE << >>)
             /\ UNCHANGED << object_map, object_map_pom, commits, req, dir_path, cpp_acc,
                             history, last_hit, cpp_attached, fixed, cpp_ret, driver >>

(***************************************************************************)
(* CppAcc::push on a stand-alone accumulator.  CppAcc shares no state with  *)
(* the repository, so a run drives one or the other.                        *)
(***************************************************************************)
CppLabels == {1, 2}

CppLocals ==
  { [compressed_node |-> 1, metrics |-> [size |-> 1, height |-> 1, hashs |-> ZeroHashs]],
    [compressed_node |-> 2, metrics |-> [size |-> 3, height |-> 2, hashs |-> ZeroHashs]] }

CppPush(name, full_node, skiped_ana) ==
  /\ pc = "idle"
  /\ history = << >>
  /\ Len(cpp_attached) < MaxCppChildren
  /\ cpp_ret = << >>
  /\ cpp_acc' = CppAcc_push(cpp_acc, name, full_node, skiped_ana)
  /\ cpp_attached' = Append(cpp_attached, [name |-> name, id |-> full_node.compressed_node,
                                           metrics |-> full_node.metrics])
  /\ UNCHANGED << stores, memos, commits, pc, req, dir_path, stack, jstack, jret, log, nfid,
                  history, last_fold, last_hit, fixed, cpp_ret, driver >>

(***************************************************************************)
(* handle_cpp_file, which nothing of the ingestion calls: the calls of a    *)
(* run on the repository's stores.                                          *)
(***************************************************************************)
CppFileNames == {"a.cpp"}

CppBlobs == {"bCpp", "bCppBad"}

HandleCppFile(name, b) ==
  /\ pc = "idle"
  /\ history = << >>
  /\ cpp_attached = << >>
  /\ Len(cpp_ret) < MaxCppFiles
  /\ LET r == handle_cpp_file(node_store, label_store, name, b)
     IN /\ node_store' = r.ns
        /\ label_store' = r.ls
        /\ cpp_ret' = Append(cpp_ret,
                             [name |-> name, blob |-> b, ok |-> r.ok,
                              node |-> IF r.ok THEN r.local.compressed_node ELSE 0,
                              nodes_before |-> Len(node_store), nodes_after |-> Len(r.ns)])
  /\ UNCHANGED << memos, commits, pc, req, dir_path, stack, jstack, jret, cpp_acc, log, nfid,
                  history, last_fold, last_hit, cpp_attached, fixed, driver >>

(***************************************************************************)
(* pre_process, pre_process_no_maven and purge_caches.                      *)
(***************************************************************************)
\* pre_process / pre_process_no_maven up to the first commit of the revwalk
StartWalk(w) ==
  /\ pc = "idle"
  /\ ~rw.some
  /\ history = << >>
  /\ cpp_attached = << >>
  /\ cpp_ret = << >>
  /\ rw' = [some |-> TRUE, returned |-> FALSE, mode |-> w.mode, dir_path |-> w.dir_path,
            oids |-> w.oids, taken |-> 0]
  /\ UNCHANGED << stores, memos, commits, pc, req, dir_path, stack, jstack, jret, cpp_acc, log,
                  nfid, history, last_fold, last_hit, cpp_attached, fixed, cpp_ret,
                  java_md_cache, parsed, purges, last_query >>

pre_process(w) == w.mode = "maven" /\ StartWalk(w)

pre_process_no_maven(w) == w.mode = "java" /\ StartWalk(w)

\* the for_each is over: pre_process returns
PreProcessReturn ==
  /\ pc = "idle"
  /\ Walking
  /\ rw.taken = Take \/ rw.taken = Len(rw.oids)
  /\ rw' = [rw EXCEPT !.returned = TRUE]
  /\ last_query' = NoQuery
  /\ UNCHANGED << stores, memos, commits, pc, req, dir_path, stack, jstack, jret, cpp_acc, log,
                  nfid, history, last_fold, last_hit, cpp_attached, fixed, cpp_ret,
                  java_md_cache, parsed, purges >>

\* the fields of the PreProcessedRepository
Repo ==
  [node_store |-> node_store, label_store |-> label_store, java_md_cache |-> java_md_cache,
   object_map |-> object_map, object_map_pom |-> object_map_pom,
   object_map_java |-> object_map_java, commits |-> commits]

\* a purge that clears the memo of the Java handler with the cache
purge_caches_with_object_map_java(repo) ==
  [repo EXCEPT !.java_md_cache = {}, !.object_map_java = EmptyMap]

\* purge_caches: self.java_md_cache.clear()
purge_caches(repo) == [repo EXCEPT !.java_md_cache = {}]

PurgeCaches ==
  /\ pc = "idle"
  /\ ~Walking
  /\ cpp_attached = << >>
  /\ cpp_ret = << >>
  /\ Len(purges) < MaxPurges
  /\ LET repo == purge_caches(Repo)
     IN /\ node_store' = repo.node_store
        /\ label_store' = repo.label_store
        /\ java_md_cache' = repo.java_md_cache
        /\ object_map' = repo.object_map
        /\ object_map_pom' = repo.object_map_pom
        /\ object_map_java' = repo.object_map_java
        /\ commits' = repo.commits
  /\ purges' = Append(purges, [at |-> Len(history), repo |-> Repo])
  /\ last_query' = NoQuery
  /\ UNCHANGED << pc, req, dir_path, stack, jstack, jret, cpp_acc, log, nfid, history,
                  last_fold, last_hit, cpp_attached, fixed, cpp_ret, rw, parsed >>

(***************************************************************************)
(* Query surface.                                                           *)
(***************************************************************************)
\* NodeRef::get_child_idx_by_name
get_child_idx_by_name(n, name) ==
  LET names == NodeChildrenNames(n)
      at == {i \in 1..Len(names) : names[i] = name}
  IN IF at = {} THEN None ELSE Some(Min(at))

\* a lookup that returns the first child whatever the name
child_by_name_first_child(d, name) ==
  LET l == label_get(label_store, name)
  IN IF l = 0 \/ NodeChildren(node_store[d]) = << >> THEN None
     ELSE Some(NodeChildren(node_store[d])[1])

\* child_by_name(d, name)
child_by_name(d, name) ==
  LET l == label_get(label_store, name)
      i == get_child_idx_by_name(node_store[d], l)
  IN IF l = 0 \/ ~i.some THEN None ELSE Some(NodeChildren(node_store[d])[i.v])

\* LabelStore::get_or_insert in the place of get
LabelStore_get_or_insert(ls, s) == [ls |-> label_intern(ls, s), id |-> Some(label_id(ls, s))]

\* self.main_stores.label_store.get(name) on &self: the store afterwards and the
\* Option returned
LabelStore_get(ls, s) ==
  [ls |-> ls, id |-> IF label_get(ls, s) = 0 THEN None ELSE Some(label_get(ls, s))]

\* child_by_name_with_idx(d, name): (n.get_child(&i), i as usize), indices from 0
child_by_name_with_idx(d, name) ==
  LET l == LabelStore_get(label_store, name).id
      i == IF l.some THEN get_child_idx_by_name(node_store[d], l.v) ELSE None
  IN IF i.some THEN Some([node |-> NodeChildren(node_store[d])[i.v], idx |-> i.v - 1])
     ELSE None

\* child_by_type(d, t): the first child the find of the scan stops at
child_by_type(d, t) ==
  LET children == NodeChildren(node_store[d])
      at == {i \in 1..Len(children) : node_store[children[i]]["Type"] = t}
  IN IF at = {} THEN None ELSE Some([node |-> children[Min(at)], idx |-> Min(at) - 1])

\* the names and types a caller asks for; "absent" is the name of no entry
QueryNames == {"pom.xml", "src", "docs", "absent"}

QueryTypes == {"MavenDirectory", "Directory", "xml_SourceFile"}

\* the directories a caller asks about: the root of the last commit ingested
QueryDirs == IF history = << >> THEN {} ELSE {Last(history).ast_root}

\* a query on &self between two calls of the driver
Query(op, d, arg, ls, ret) ==
  /\ pc = "idle"
  /\ label_store' = ls
  /\ last_query' = [some |-> TRUE, op |-> op, d |-> d, arg |-> arg, ret |-> ret,
                    known |-> label_get(label_store, arg) # 0]
  /\ UNCHANGED << node_store, memos, commits, pc, req, dir_path, stack, jstack, jret, cpp_acc,
                  log, nfid, history, last_fold, last_hit, cpp_attached, fixed, cpp_ret,
                  java_md_cache, rw, parsed, purges >>

ChildByName(d, name) ==
  Query("child_by_name", d, name, LabelStore_get(label_store, name).ls,
        IF LabelStore_get(label_store, name).id.some THEN child_by_name(d, name) ELSE None)

ChildByNameWithIdx(d, name) ==
  Query("child_by_name_with_idx", d, name, LabelStore_get(label_store, name).ls,
        child_by_name_with_idx(d, name))

ChildByType(d, t) == Query("child_by_type", d, t, label_store, child_by_type(d, t))

Next ==
  \/ \E w \in RevWalks : pre_process(w)
  \/ \E w \in RevWalks : pre_process_no_maven(w)
  \/ PreProcessReturn
  \/ PurgeCaches
  \/ \E r \in Requests : handle_maven_commit(r)
  \/ \E r \in Requests : handle_java_commit(r)
  \/ Descend("maven")
  \/ SkipTree("maven")
  \/ MavenMemoHit
  \/ MavenEnterDir
  \/ MavenSourceDir
  \/ MavenSkipBlob
  \/ MavenPomHit
  \/ MavenPomParse
  \/ FoldMaven("maven")
  \/ Descend("fast_fwd")
  \/ SkipTree("fast_fwd")
  \/ FastFwdMemoHit
  \/ FastFwdSourceDir
  \/ FastFwdSkipBlob
  \/ FoldMaven("fast_fwd")
  \/ JavaTreeHit
  \/ JavaEnterDir
  \/ JavaSkipBlob
  \/ JavaBlobHit
  \/ JavaBlobParse
  \/ JavaFold
  \/ JavaReturn
  \/ \E name \in CppLabels, full_node \in CppLocals, skiped_ana \in BOOLEAN :
       CppPush(name, full_node, skiped_ana)
  \/ \E name \in CppFileNames, b \in CppBlobs : HandleCppFile(name, b)
  \/ \E d \in QueryDirs, name \in QueryNames : ChildByName(d, name)
  \/ \E d \in QueryDirs, name \in QueryNames : ChildByNameWithIdx(d, name)
  \/ \E d \in QueryDirs, t \in QueryTypes : ChildByType(d, t)

Spec == Init /\ [][Next]_vars

\* one iteration of the loop of handle_maven_module, fast_fwd or handle_java_src
Iterate ==
  \/ Descend("maven")
  \/ SkipTree("maven")
  \/ MavenMemoHit
  \/ MavenEnterDir
  \/ MavenSourceDir
  \/ MavenSkipBlob
  \/ MavenPomHit
  \/ MavenPomParse
  \/ FoldMaven("maven")
  \/ Descend("fast_fwd")
  \/ SkipTree("fast_fwd")
  \/ FastFwdMemoHit
  \/ FastFwdSourceDir
  \/ FastFwdSkipBlob
  \/ FoldMaven("fast_fwd")
  \/ JavaTreeHit
  \/ JavaEnterDir
  \/ JavaSkipBlob
  \/ JavaBlobHit
  \/ JavaBlobParse
  \/ JavaFold
  \/ JavaReturn

\* the runs in which a loop that was entered goes on iterating: `loop { .. }` of a
\* sequential program is not suspended between two iterations
LiveSpec == Init /\ [][Next]_vars /\ WF_vars(Iterate)

\* the Java-mode ingestions of the commit whose only Java file is A.java (bA1)
BloomRequests == {r \in Requests : r.mode = "java" /\ r.commit = "c1"}

BloomNext ==
  \/ \E r \in BloomRequests : handle_java_commit(r)
  \/ FastFwdSourceDir
  \/ FastFwdSkipBlob
  \/ FoldMaven("fast_fwd")
  \/ JavaTreeHit
  \/ JavaEnterDir
  \/ JavaSkipBlob
  \/ JavaBlobParse
  \/ JavaFold
  \/ JavaReturn

BloomSpec == BloomInit /\ [][BloomNext]_vars

(***************************************************************************)
(* drain_filter_strip on its own: every pending set of at most MaxPending   *)
(* paths, against the name of a directory entry.                            *)
(***************************************************************************)
MaxPending == 3

\* the paths a pending set is made of: none to two components
StripPaths == {<< >>, <<"src">>, <<"src", "main">>, <<"tst">>, <<"tst", "src">>}

StripNames == {"src", "tst"}

RECURSIVE SeqsUpTo(_, _)
\* the sequences of at most n elements of S
SeqsUpTo(S, n) ==
  IF n = 0 THEN {<< >>}
  ELSE LET shorter == SeqsUpTo(S, n - 1)
       IN shorter \cup {Append(q, x) : q \in shorter, x \in S}

\* Option<Vec<PathBuf>>
PendingSets == {None} \cup {Some(q) : q \in SeqsUpTo(StripPaths, MaxPending)}

StripInit ==
  /\ New
  /\ a_java_refs = 9
  /\ PROPAGATE_ERROR_ON_BAD_CST_NODE = FALSE
  /\ drained \in {[some |-> TRUE, done |-> FALSE, v |-> v, name |-> name,
                    left |-> v, out |-> << >>] : v \in PendingSets, name \in StripNames}

\* drain_filter_strip(&mut v, name)
DrainFilterStrip ==
  /\ drained.some
  /\ ~drained.done
  /\ LET r == drain_filter_strip(drained.v, drained.name)
     IN drained' = [drained EXCEPT !.done = TRUE, !.left = r.v, !.out = r.out]
  /\ UNCHANGED << stores, memos, commits, pc, req, dir_path, stack, jstack, jret, cpp_acc, log,
                  nfid, history, last_fold, last_hit, cpp_attached, inputs, cpp_ret, driver >>

StripSpec == StripInit /\ [][DrainFilterStrip]_vars

(***************************************************************************)
(* Properties.                                                              *)
(***************************************************************************)
IsDirNode(n) == n["Type"] \in {"MavenDirectory", "Directory"}

SameDirectory(n, m) ==
  /\ n["Type"] = m["Type"]
  /\ get_label(n) = get_label(m)
  /\ NodeChildren(n) = NodeChildren(m)

SameRequest(a, b) ==
  /\ a.tree = b.tree
  /\ a.r.module_path = b.r.module_path
  /\ a.r.mode = b.r.mode

\* C1: the node store never holds two directory nodes with the same type, the
\* same label and the same ordered children (a fold of an equal frame returns the
\* id of the node already there).
C1_NoDuplicateDirectoryNode ==
  \A i, j \in 1..Len(node_store) :
    (i < j /\ IsDirNode(node_store[i]) /\ IsDirNode(node_store[j]))
      => ~SameDirectory(node_store[i], node_store[j])

\* C2: two ingestions of the same root tree through the same entry point with the
\* same module_path return the same ast_root.
C2_SameTreeSameRoot ==
  \A i, j \in 1..Len(history) :
    (i < j /\ SameRequest(history[i], history[j]))
      => history[i].ast_root = history[j].ast_root

\* C3: an ingestion of a root tree that was ingested before, with the same
\* module_path, leaves the number of nodes of the store as it found it.
C3_ReingestionAddsNoNode ==
  \A i, j \in 1..Len(history) :
    (i < j /\ SameRequest(history[i], history[j]))
      => history[j].nodes_after = history[j].nodes_before

\* What handle_java_src attaches for the subtree e when it is not served from
\* object_map_java: the fold of a JavaAcc that received the entries of the tree.
RECURSIVE FreshJavaAcc(_, _)
FreshJavaAcc(acc, todo) ==
  IF todo = << >> THEN acc
  ELSE LET e == Last(todo)
           known == e.oid \in DOMAIN object_map_java
           m == object_map_java[e.oid]
           name == label_get(label_store, e.name)
       IN IF known /\ e.kind = "Tree"
          THEN FreshJavaAcc(JavaAcc_push_dir(acc, name, m.local, m.skiped_ana), Front(todo))
          ELSE IF known /\ is_handled(e.name)
          THEN FreshJavaAcc(JavaAcc_push(acc, name, m.local), Front(todo))
          ELSE FreshJavaAcc(acc, Front(todo))

FreshJavaDir(e) ==
  fold_java(node_store, label_store, FreshJavaAcc(JavaAcc_new(e.name), prepare_java(e.oid))).local

\* What the handlers return for the blob e when it is parsed again.
FreshFile(type, e) == generate_file(node_store, label_store, type, e.name, e.oid).local

FreshOf(h) ==
  IF h.map = "object_map_pom" THEN FreshFile("xml_SourceFile", h.entry)
  ELSE IF h.entry.kind = "Blob" THEN FreshFile("java_Program", h.entry)
  ELSE FreshJavaDir(h.entry)

\* C4: what a memo hit attaches (NodeId and metrics) is what traversing or parsing
\* the same object afresh under the same name would attach.  Stated for the hits of
\* object_map_java (subtrees and files) and of object_map_pom.
C4_MemoHitEqualsFresh ==
  (last_hit.some /\ last_hit.map \in {"object_map_java", "object_map_pom"})
    => /\ last_hit.id = FreshOf(last_hit).compressed_node
       /\ last_hit.metrics = FreshOf(last_hit).metrics

RECURSIVE SumSizes(_)
SumSizes(attached) ==
  IF attached = << >> THEN 0 ELSE Last(attached).metrics.size + SumSizes(Front(attached))

RECURSIVE MaxHeight(_)
MaxHeight(attached) ==
  IF attached = << >> THEN 0
  ELSE Max2(Last(attached).metrics.height, MaxHeight(Front(attached)))

\* C5: the metrics of the Local/MD a directory fold produces are size = 1 + the
\* sum of the sizes of the children attached to the frame and height = 1 + the
\* greatest of their heights (1 and 1 without children).
C5_FoldMetrics ==
  last_fold.some
    => /\ last_fold.metrics.size = 1 + SumSizes(last_fold.attached)
       /\ last_fold.metrics.height = 1 + MaxHeight(last_fold.attached)

C5_Witness ==
  /\ last_fold.some
  /\ Len(last_fold.attached) >= 2
  /\ \E i, j \in 1..Len(last_fold.attached) :
       last_fold.attached[i].metrics.height < last_fold.attached[j].metrics.height

\* the children and the names of acc are the ids and the names of the attaches
Mirrors(acc, attached) ==
  /\ Len(acc.children) = Len(acc.children_names)
  /\ Len(acc.children) = Len(attached)
  /\ \A i \in 1..Len(attached) :
       /\ acc.children[i] = attached[i].id
       /\ acc.children_names[i] = attached[i].name

\* C6: in every accumulator (the frames of the stacks, the CppAcc) and at every
\* fold, children and children_names have the same length and the i-th name is
\* the name under which the i-th child was attached.
C6_NamesMirrorChildren ==
  /\ \A i \in 1..Len(stack) : Mirrors(stack[i].acc, stack[i].attached)
  /\ \A i \in 1..Len(jstack) : Mirrors(jstack[i].acc, jstack[i].attached)
  /\ Mirrors(cpp_acc, cpp_attached)
  /\ last_fold.some => Mirrors(last_fold.acc, last_fold.attached)

C6_Witness ==
  /\ Len(cpp_attached) = MaxCppChildren
  /\ cpp_attached[1].name # cpp_attached[2].name
  /\ cpp_attached[1].id # cpp_attached[2].id

NoDuplicate(names) ==
  \A i, j \in 1..Len(names) : i # j => names[i] # names[j]

\* C7: no accumulator holds a duplicate child name: an attach of a name that is
\* already in children_names (CppAcc::push included) adds no child.
C7_NoDuplicateChildName ==
  /\ \A i \in 1..Len(stack) : NoDuplicate(stack[i].acc.children_names)
  /\ \A i \in 1..Len(jstack) : NoDuplicate(jstack[i].acc.children_names)
  /\ NoDuplicate(cpp_acc.children_names)
  /\ last_fold.some => NoDuplicate(last_fold.acc.children_names)

Events(kind) == {i \in 1..Len(log) : log[i].ev = kind}

\* the position of the fold of frame f in the log, 0 when it is not folded yet
FoldAt(f) ==
  IF \E i \in Events("fold") : log[i].frame = f
  THEN CHOOSE i \in Events("fold") : log[i].frame = f
  ELSE 0

ParentOf(f) == log[CHOOSE i \in Events("enter") : log[i].frame = f].parent

\* C8: within an ingestion the folds are in post-order: when a frame is folded,
\* every frame entered from it is folded already and every attach to it is made;
\* a folded frame is attached to its parent in the same iteration, before anything
\* else happens to the parent.
C8_PostOrder ==
  \A i \in Events("fold") :
    LET f == log[i].frame IN
    /\ \A j \in Events("enter") :
         log[j].parent = f => (j < i /\ FoldAt(log[j].frame) \in 1..(i - 1))
    /\ \A j \in Events("attach") : log[j].frame = f => j < i
    /\ \A j \in Events("pop") : log[j].frame = f => j < i
    /\ (ParentOf(f) # 0 /\ i < Len(log))
         => /\ log[i + 1].ev = "attach"
            /\ log[i + 1].child = f
            /\ log[i + 1].frame = ParentOf(f)
            /\ log[i + 1].id = log[i].id

\* a fold of a frame from which two frames were entered, below the root
C8_Witness ==
  /\ pc = "idle"
  /\ \E i \in Events("fold") :
       /\ ParentOf(log[i].frame) = 0
       /\ Cardinality({j \in Events("enter") : log[j].parent = log[i].frame}) >= 2
       /\ \E j \in Events("enter") :
            log[j].parent # 0 /\ ParentOf(log[j].parent) = log[i].frame

HasPom(tree) == \E i \in 1..Len(Trees[tree]) : IsPom(Trees[tree][i])

PomOf(tree) == Trees[tree][CHOOSE i \in 1..Len(Trees[tree]) : IsPom(Trees[tree][i])]

\* the frames of handle_maven_module entered with the descent path exhausted and
\* a pom.xml blob in their tree
PomFrames ==
  {i \in Events("enter") : log[i].loop = "maven" /\ log[i].exhausted /\ HasPom(log[i].oid)}

PopsOf(f) == {i \in Events("pop") : log[i].frame = f}

PomAttachedBefore(f, i) ==
  \E j \in Events("attach") : j < i /\ log[j].frame = f /\ log[j].via = "push_pom"

\* C9 as claimed: in such a frame pom.xml is attached (push_pom) before any
\* subdirectory is popped.
C9_PomAttachedFirst ==
  \A k \in PomFrames :
    \A i \in PopsOf(log[k].frame) :
      log[i].entry.kind = "Tree" => PomAttachedBefore(log[k].frame, i)

\* C9 amended: in such a frame pom.xml is the first child popped, and when its
\* content is valid UTF-8 it is attached (push_pom) before any subdirectory is popped.
C9_PomPoppedFirst ==
  \A k \in PomFrames :
    LET f == log[k].frame IN
    /\ PopsOf(f) # {} => IsPom(log[Min(PopsOf(f))].entry)
    /\ Blobs[PomOf(log[k].oid).oid].utf8
         => \A i \in PopsOf(f) :
              log[i].entry.kind = "Tree" => PomAttachedBefore(f, i)

\* a frame whose pom.xml is not the first entry of its tree, after the pop of
\* one of its subdirectories
C9_Witness ==
  \E k \in PomFrames :
    /\ ~IsPom(Trees[log[k].oid][1])
    /\ Blobs[PomOf(log[k].oid).oid].utf8
    /\ \E i \in PopsOf(log[k].frame) : log[i].entry.kind = "Tree"

IndexIn(tree, e) == CHOOSE i \in 1..Len(Trees[tree]) : Trees[tree][i] = e

\* C10: the entries of a frame of handle_maven_module other than pom.xml are
\* popped in Git's natural order, the first entry of the tree first.
C10_NaturalOrder ==
  \A k \in Events("enter") :
    (log[k].loop = "maven" /\ log[k].exhausted)
      => \A i, j \in PopsOf(log[k].frame) :
           (i < j /\ ~IsPom(log[i].entry) /\ ~IsPom(log[j].entry))
             => IndexIn(log[k].oid, log[i].entry) < IndexIn(log[k].oid, log[j].entry)

\* the request of the ingestion the log belongs to
LogRequest == IF req.some THEN req.r ELSE Last(history).r

\* the frames entered while components of module_path were left: frame k of the
\* ingestion waits for the k-th component
DescentFrames == {k \in Events("enter") : ~log[k].exhausted}

Awaited(k) == LogRequest.module_path[log[k].frame]

\* the event after the pop at i is the push of a frame for the popped subtree
EntersAfter(i) ==
  /\ i < Len(log)
  /\ log[i + 1].ev = "enter"
  /\ log[i + 1].parent = log[i].frame
  /\ log[i + 1].oid = log[i].entry.oid

\* the event after the pop at i is an attach to the frame that popped
AttachesAfter(i) ==
  /\ i < Len(log)
  /\ log[i + 1].ev = "attach"
  /\ log[i + 1].frame = log[i].frame

\* C11: in a frame entered while components of module_path remain, a popped blob
\* and a popped subtree of another name than the awaited component are neither
\* entered nor attached (a memo lookup ends in one or the other), the subtree of
\* the awaited name is entered, nothing is popped from the frame after it, and
\* the only thing ever attached to the frame is the fold of that subtree.
C11_DescentVisitsOnlyThePath ==
  \A k \in DescentFrames :
    LET f == log[k].frame
        matches(i) == log[i].entry.kind = "Tree" /\ log[i].entry.name = Awaited(k)
    IN /\ \A i \in PopsOf(f) :
            IF matches(i)
            THEN /\ EntersAfter(i)
                 /\ log[i + 1].loop \in {"maven", "fast_fwd"}
                 /\ \A j \in PopsOf(f) : j <= i
            ELSE ~EntersAfter(i) /\ ~AttachesAfter(i)
       /\ \A j \in Events("attach") :
            log[j].frame = f
              => /\ log[j].child # 0
                 /\ ParentOf(log[j].child) = f
                 /\ \E i \in PopsOf(f) : matches(i) /\ log[i + 1].frame = log[j].child

\* a descent that passed over a subtree and a blob, matched, left a sibling
\* unvisited and came back with the fold of the matched subtree
C11_Witness ==
  \E k \in DescentFrames :
    LET f == log[k].frame IN
    /\ \E i \in PopsOf(f) : log[i].entry.kind = "Blob"
    /\ \E i \in PopsOf(f) : log[i].entry.kind = "Tree" /\ log[i].entry.name # Awaited(k)
    /\ Cardinality(PopsOf(f)) < Len(Trees[log[k].oid])
    /\ \E j \in Events("attach") : log[j].frame = f

\* the name the node id is labelled with
LabelOf(id) == label_store[get_label(node_store[id])]

\* C12: the ast_root of an ingestion with a non-empty module_path that exists in
\* the commit's tree is the node folded for the last component of the path.
C12_AstRootIsLastComponent ==
  \A i \in 1..Len(history) :
    history[i].r.module_path # << >>
      => LabelOf(history[i].ast_root) = Last(history[i].r.module_path)

\* C13: a directory served from object_map or object_map_java is attached only
\* when the label of the memoized node is the name of the tree entry; with another
\* label the ingestion aborts and nothing is attached.
C13_MemoHitLabelChecked ==
  (last_hit.some /\ last_hit.entry.kind = "Tree")
    => LabelOf(last_hit.id) = last_hit.entry.name

BloomOf(id) == node_store[id]["BloomSize"]

\* a directory node handle_java_src has just inserted from a frame with children
\* that is not skiped_ana
PlainFold ==
  /\ last_fold.some
  /\ last_fold.kind = "Directory"
  /\ last_fold.inserted
  /\ Len(last_fold.acc.children) >= 1
  /\ ~last_fold.acc.skiped_ana

\* the tier table, by the reference count after resolve
TierTable(r) ==
  IF r = 0 THEN "None"
  ELSE IF r <= 8 THEN "B16"
  ELSE IF r <= 15 THEN "B32"
  ELSE IF r <= 30 THEN "B64"
  ELSE IF r <= 100 THEN "B2x64"
  ELSE IF r <= 150 THEN "B4x64"
  ELSE IF r <= 256 THEN "B8x64"
  ELSE IF r <= 512 THEN "B16x64"
  ELSE IF r <= 2048 THEN "B32x64"
  ELSE "Much"

\* C14: a directory node newly inserted by handle_java_src from a frame that has
\* children and is not skiped_ana carries the bloom variant the tier table gives
\* for its reference count after resolve.
C14_BloomTierTable ==
  PlainFold => BloomOf(last_fold.id) = TierTable(refs_count(last_fold.ana))

\* a fold just above a threshold, its count lowered by resolve
C14_Witness ==
  /\ PlainFold
  /\ refs_count(last_fold.ana) = 257
  /\ refs_count(last_fold.acc.ana) > 257
  /\ BloomOf(last_fold.id) = "B16x64"

\* C15 as claimed: 9 references give the 32-bit tier, 200 the 2x64 tier, 3000 Much.
C15_ScenarioTiers ==
  PlainFold
    => /\ refs_count(last_fold.ana) = 9 => BloomOf(last_fold.id) = "B32"
       /\ refs_count(last_fold.ana) = 200 => BloomOf(last_fold.id) = "B2x64"
       /\ refs_count(last_fold.ana) = 3000 => BloomOf(last_fold.id) = "Much"

\* C15 amended: 9 references give the 32-bit tier, 200 the 8x64 tier, 3000 Much.
C15_ScenarioTiersOfTheTable ==
  PlainFold
    => /\ refs_count(last_fold.ana) = 9 => BloomOf(last_fold.id) = "B32"
       /\ refs_count(last_fold.ana) = 200 => BloomOf(last_fold.id) = "B8x64"
       /\ refs_count(last_fold.ana) = 3000 => BloomOf(last_fold.id) = "Much"

C15_Witness == PlainFold /\ refs_count(last_fold.ana) = 200

\* C16: a directory node inserted from a frame whose accumulator is skiped_ana
\* carries BloomSize::Much.
C16_SkippedGetsMuch ==
  (/\ last_fold.some
   /\ last_fold.kind = "Directory"
   /\ last_fold.inserted
   /\ last_fold.acc.skiped_ana)
    => BloomOf(last_fold.id) = "Much"

\* the fold of a directory that is skiped_ana because its child directory is,
\* with no reference merged
C16_Witness ==
  /\ last_fold.some
  /\ last_fold.kind = "Directory"
  /\ last_fold.inserted
  /\ last_fold.acc.skiped_ana
  /\ last_fold.acc.name = "main"
  /\ refs_count(last_fold.ana) = 0

\* C17: a directory frame folded without any attached child, in any of the three
\* traversals, is inserted with BloomSize::None and has size 1 and height 1.
C17_EmptyDirectory ==
  (last_fold.some /\ last_fold.inserted /\ last_fold.attached = << >>)
    => /\ BloomOf(last_fold.id) = "None"
       /\ last_fold.metrics.size = 1
       /\ last_fold.metrics.height = 1

\* some pending path of the accumulator has `..` as its first component
HoldsParentPath(acc) ==
  \E pending \in {acc.sub_modules, acc.main_dirs, acc.test_dirs} :
    /\ pending.some
    /\ \E i \in 1..Len(pending.v) : Len(pending.v[i]) > 0 /\ pending.v[i][1] = ".."

\* the next iteration of handle_maven_module or fast_fwd folds the top frame
MavenFoldNext ==
  /\ pc \in {"maven", "fast_fwd"}
  /\ stack # << >>
  /\ Top(stack).children = << >>

\* C18: the fold of a Maven frame that holds a pending path starting with `..`
\* aborts the ingestion with the node store and object_map as they were; the fold
\* of a frame without such a path inserts or finds its node and memoizes it,
\* whatever other paths are still pending.
C18_ParentPathAbortsFold ==
  [][MavenFoldNext
       => IF HoldsParentPath(Top(stack).acc)
          THEN /\ pc' = "aborted"
               /\ node_store' = node_store
               /\ object_map' = object_map
          ELSE /\ Top(stack).oid \in DOMAIN object_map'
               /\ last_fold'.some
               /\ last_fold'.acc = Top(stack).acc
               /\ last_fold'.id \in 1..Len(node_store')]_vars

\* the fold of a frame with a path into the parent directory was refused, after
\* the fold of a frame of the same ingestion that had none
C18_Witness ==
  /\ pc = "aborted"
  /\ stack # << >>
  /\ Top(stack).children = << >>
  /\ HoldsParentPath(Top(stack).acc)
  /\ last_fold.some
  /\ Top(stack).oid \notin DOMAIN object_map

\* the iteration at hand is the parse of a file whose handler returns Err
ParseErrorAtHand ==
  \/ /\ jstack = << >>
     /\ HasChild
     /\ IsPom(Cur)
     /\ dir_path = << >>
     /\ Cur.oid \notin DOMAIN object_map_pom
     /\ Blobs[Cur.oid].utf8
     /\ ~handler_ok(Cur.oid)
  \/ /\ JHasChild
     /\ JCur.kind = "Blob"
     /\ ends_with_java(JCur.name)
     /\ JCur.oid \notin DOMAIN object_map_java
     /\ Blobs[JCur.oid].utf8
     /\ ~handler_ok(JCur.oid)

\* the file node id was generated from a blob whose handler returns Err
FromParseError(id) ==
  "Content" \in DOMAIN node_store[id] /\ ~handler_ok(node_store[id]["Content"])

\* C19: the ingestion never ends on a file whose handler returns a parse error,
\* a .java file or a pom.xml: such a file is in no memo map and is attached to no
\* accumulator, and the traversal goes on.
C19_ParseErrorSkipsFile ==
  /\ ~(pc = "aborted" /\ ParseErrorAtHand)
  /\ \A b \in (DOMAIN object_map_java \cup DOMAIN object_map_pom) \cap DOMAIN Blobs :
       handler_ok(b)
  /\ \A i \in Events("attach") : ~FromParseError(log[i].id)

\* C20: handle_cpp_file on a bad CST returns Err and generates no node in a build
\* with PROPAGATE_ERROR_ON_BAD_CST_NODE, and returns Ok with the node of the file
\* in a build without; on a good CST it returns Ok with the node of the file.
C20_CppBadCst ==
  \A i \in 1..Len(cpp_ret) :
    LET c == cpp_ret[i] IN
    IF ~Blobs[c.blob].parse_ok /\ PROPAGATE_ERROR_ON_BAD_CST_NODE
    THEN ~c.ok /\ c.nodes_after = c.nodes_before
    ELSE /\ c.ok
         /\ c.node \in 1..c.nodes_after
         /\ node_store[c.node]["Content"] = c.blob
         /\ LabelOf(c.node) = c.name

\* a build that propagates: a good file generated, then a bad one refused
C20_Witness ==
  /\ PROPAGATE_ERROR_ON_BAD_CST_NODE
  /\ Len(cpp_ret) = 2
  /\ Blobs[cpp_ret[1].blob].parse_ok
  /\ ~Blobs[cpp_ret[2].blob].parse_ok

\* the node a chain of child_by_name reaches from d along path
RECURSIVE PathNode(_, _)
PathNode(d, path) ==
  IF path = << >> THEN Some(d)
  ELSE LET c == child_by_name(d, Head(path))
       IN IF c.some THEN PathNode(c.v, Tail(path)) ELSE None

\* the path of the one file in which the trees t1 and t2 differ, None when they
\* do not differ in exactly one file
RECURSIVE ChangedPath(_, _)
ChangedPath(t1, t2) ==
  LET a == Trees[t1]
      b == Trees[t2]
      D == IF Len(a) = Len(b) THEN {i \in 1..Len(a) : a[i] # b[i]} ELSE {}
  IN IF Cardinality(D) # 1 THEN None
     ELSE LET i == CHOOSE k \in D : TRUE
          IN IF a[i].name # b[i].name \/ a[i].kind # b[i].kind THEN None
             ELSE IF a[i].kind = "Blob" THEN Some(<< a[i].name >>)
             ELSE LET sub == ChangedPath(a[i].oid, b[i].oid)
                  IN IF sub.some THEN Some(<< a[i].name >> \o sub.v) ELSE None

\* the ingestions i and j > i are Maven-mode ingestions of whole trees that differ in
\* one .java file of a source root, the trees having a pom.xml
OneJavaFileApart(i, j) ==
  /\ i < j
  /\ history[i].r.mode = "maven" /\ history[j].r.mode = "maven"
  /\ history[i].r.module_path = << >> /\ history[j].r.module_path = << >>
  /\ HasPom(history[i].tree)
  /\ ChangedPath(history[i].tree, history[j].tree).some
  /\ Last(ChangedPath(history[i].tree, history[j].tree).v) \in JavaNames
  /\ PathNode(history[i].ast_root, ChangedPath(history[i].tree, history[j].tree).v).some

\* C21: after the ingestion of a commit A and of a commit B that differs from A in
\* the content of one file of a source root, the two roots are distinct nodes, the
\* child pom.xml of both roots is one node, and every directory on the path from the
\* root to the changed file is a node distinct from the directory of A at that path.
C21_ChangedSpineIsNew ==
  \A i, j \in 1..Len(history) :
    OneJavaFileApart(i, j)
      => LET a == history[i].ast_root
             b == history[j].ast_root
             path == ChangedPath(history[i].tree, history[j].tree).v
         IN /\ a # b
            /\ child_by_name(a, "pom.xml").some
            /\ child_by_name(a, "pom.xml") = child_by_name(b, "pom.xml")
            /\ \A k \in 1..(Len(path) - 1) :
                 /\ PathNode(a, SubSeq(path, 1, k)).some
                 /\ PathNode(b, SubSeq(path, 1, k)).some
                 /\ PathNode(a, SubSeq(path, 1, k)) # PathNode(b, SubSeq(path, 1, k))

\* the two ingestions differ in src/main/java/A.java
C21_Witness ==
  \E i, j \in 1..Len(history) :
    /\ OneJavaFileApart(i, j)
    /\ ChangedPath(history[i].tree, history[j].tree).v = << "src", "main", "java", "A.java" >>
    /\ PathNode(history[j].ast_root, << "src", "main", "java", "A.java" >>).some

\* the keys the memo maps held when the ingestion the log belongs to was called
LogKnown == IF req.some THEN req.known ELSE Last(history).known

\* the pop at i is the encounter of a blob by the handler that memoizes it
JavaEncounter(i) ==
  /\ log[i].entry.kind = "Blob"
  /\ is_handled(log[i].entry.name)
  /\ \E k \in Events("enter") : log[k].frame = log[i].frame /\ log[k].loop = "java_src"

PomEncounter(i) ==
  /\ IsPom(log[i].entry)
  /\ \E k \in Events("enter") :
       log[k].frame = log[i].frame /\ log[k].loop = "maven" /\ log[k].exhausted

AfterOneFileChange ==
  /\ log # << >>
  /\ LogRequest.module_path = << >>
  /\ \E a \in 1..(IF req.some THEN Len(history) ELSE Len(history) - 1) :
       /\ history[a].r.mode = LogRequest.mode
       /\ history[a].r.module_path = << >>
       /\ ChangedPath(history[a].tree, CommitTree[LogRequest.commit]).some

\* C23: in an ingestion B made after an ingestion A of a tree that differs in one
\* file, every directory popped whose tree was folded before B (by the Maven
\* traversal, by fast_fwd or by handle_java_src, a source root included) is attached
\* by a memo hit in the iteration that pops it: no frame is pushed for it.
C23_UnchangedDirectoriesHit ==
  AfterOneFileChange
    => \A i \in Events("pop") :
         (/\ log[i].entry.kind = "Tree"
          /\ log[i].entry.oid \in LogKnown.object_map \cup LogKnown.object_map_java)
           => AttachesAfter(i) /\ log[i + 1].child = 0

\* the same for the directories whose tree is a key of the map the loop that pops
\* them looks into
C23_MemoizedByTheLoopHit ==
  AfterOneFileChange
    => \A i \in Events("pop") :
         (/\ log[i].entry.kind = "Tree"
          /\ \E k \in Events("enter") :
               /\ log[k].frame = log[i].frame
               /\ log[i].entry.oid \in (IF log[k].loop = "java_src"
                                         THEN LogKnown.object_map_java
                                         ELSE LogKnown.object_map))
           => AttachesAfter(i) /\ log[i + 1].child = 0

\* the loop of the frame that popped at i, and whether the frame was entered with
\* the descent path exhausted
LoopOfPop(i) == log[CHOOSE k \in Events("enter") : log[k].frame = log[i].frame].loop

ExhaustedAtPop(i) ==
  log[CHOOSE k \in Events("enter") : log[k].frame = log[i].frame].exhausted

\* the pop at i is a lookup of the key of the popped entry in the map m of repo
LooksUp(i, repo) ==
  LET e == log[i].entry IN
  \/ /\ e.kind = "Tree"
     /\ LoopOfPop(i) \in {"maven", "fast_fwd"}
     /\ ExhaustedAtPop(i)
     /\ e.oid \in DOMAIN repo.object_map
  \/ /\ e.kind = "Tree"
     /\ LoopOfPop(i) = "java_src"
     /\ e.oid \in DOMAIN repo.object_map_java
  \/ JavaEncounter(i) /\ e.oid \in DOMAIN repo.object_map_java
  \/ PomEncounter(i) /\ e.oid \in DOMAIN repo.object_map_pom

\* the ingestion the log belongs to was called after the last purge_caches
IngestionAfterPurge ==
  /\ purges # << >>
  /\ log # << >>
  /\ Last(purges).at < (IF req.some THEN Len(history) + 1 ELSE Len(history))

\* C24: a call of purge_caches empties the Java metadata cache and leaves the node
\* store, the label store, object_map, object_map_pom, object_map_java and commits
\* as they are, and in an ingestion made after it every lookup of a key the memo
\* maps held at the purge is a hit: the memoized node is attached, no frame is
\* pushed and nothing is parsed.
C24_PurgeKeepsStoresAndMemos ==
  /\ [][purges' # purges
          => /\ java_md_cache' = {}
             /\ node_store' = node_store
             /\ label_store' = label_store
             /\ object_map' = object_map
             /\ object_map_pom' = object_map_pom
             /\ object_map_java' = object_map_java
             /\ commits' = commits]_vars
  /\ [](IngestionAfterPurge
          => \A i \in Events("pop") :
               LooksUp(i, Last(purges).repo) => AttachesAfter(i) /\ log[i + 1].child = 0)

\* a purge of a cache that was not empty, and after it an ingestion that was
\* served a Java file from object_map_java and a pom.xml from object_map_pom
C24_Witness ==
  /\ IngestionAfterPurge
  /\ Last(purges).repo.java_md_cache # {}
  /\ java_md_cache = {}
  /\ \E i \in Events("pop") : JavaEncounter(i) /\ LooksUp(i, Last(purges).repo)
  /\ \E i \in Events("pop") : PomEncounter(i) /\ LooksUp(i, Last(purges).repo)

\* the commits ingested since the walk began, in the order of their ingestion
Ingested == [i \in 1..Len(history) |-> history[i].r.commit]

\* C25: when pre_process or pre_process_no_maven has returned, every commit the
\* revwalk enumerates was ingested, one at a time in the order of the
\* enumeration, and commits holds an entry for every enumerated OID.
C25_EveryEnumeratedCommitIngested ==
  (rw.some /\ rw.returned)
    => /\ Len(Ingested) >= Len(rw.oids)
       /\ SubSeq(Ingested, 1, Len(rw.oids)) = rw.oids
       /\ \A i \in 1..Len(rw.oids) : rw.oids[i] \in DOMAIN commits

\* what the walk does: the first Take commits of the enumeration, in its order
C25_FirstTakeIngested ==
  (rw.some /\ rw.returned)
    => LET n == IF Len(rw.oids) < Take THEN Len(rw.oids) ELSE Take
       IN /\ Len(Ingested) >= n
          /\ SubSeq(Ingested, 1, n) = SubSeq(rw.oids, 1, n)
          /\ \A i \in 1..n : rw.oids[i] \in DOMAIN commits

LoopPcs == {"maven", "fast_fwd", "java_src"}

\* the iteration from stk to stk2 popped the last child of the top frame of stk
\* (a descent clears the siblings of the child it popped)
PopsOneChild(stk, stk2, descent) ==
  /\ stk # << >>
  /\ Top(stk).children # << >>
  /\ Len(stk2) >= Len(stk)
  /\ \A k \in 1..(Len(stk) - 1) : stk2[k] = stk[k]
  /\ IF descent
     THEN stk2[Len(stk)].children = << >>
     ELSE stk2[Len(stk)].children = Front(Top(stk).children)

\* the iteration from stk to stk2 popped the top frame of stk, which was exhausted
PopsTopFrame(stk, stk2) ==
  /\ stk # << >>
  /\ Top(stk).children = << >>
  /\ Len(stk2) = Len(stk) - 1
  /\ \A k \in 1..(Len(stk2) - 1) : stk2[k] = stk[k]

\* C26: on an ingestion in which no fatal condition arises each loop of
\* handle_maven_module, fast_fwd and handle_java_src terminates; every iteration
\* pops one child of the top frame of its stack or pops the top frame; the loop
\* ends exactly when its initial frame is folded, and returns the node of that
\* frame as the root.
C26_LoopsTerminate ==
  /\ [][(pc \in LoopPcs /\ pc' # "aborted")
          => IF pc = "java_src"
             THEN PopsOneChild(jstack, jstack', FALSE) \/ PopsTopFrame(jstack, jstack')
             ELSE \/ PopsOneChild(stack, stack', dir_path' # dir_path)
                  \/ PopsTopFrame(stack, stack')]_vars
  /\ [][(pc = "java_src" /\ pc' # "aborted")
          => /\ (pc' # "java_src") <=> (Len(jstack) = 1 /\ Top(jstack).children = << >>)
             /\ (pc' # "java_src")
                  => /\ pc' = jret.caller
                     /\ last_fold'.some
                     /\ last_fold'.acc = jstack[1].acc
                     /\ object_map_java'[jstack[1].oid].local.compressed_node = last_fold'.id
                     /\ Last(stack'[Len(stack)].attached).id = last_fold'.id]_vars
  /\ [][(pc \in {"maven", "fast_fwd"} /\ pc' \notin {"aborted", "java_src"})
          => /\ (pc' = "idle") <=> (Len(stack) = 1 /\ Top(stack).children = << >>)
             /\ (pc' = "idle")
                  => /\ stack[1].fid = 1
                     /\ last_fold'.some
                     /\ last_fold'.acc = stack[1].acc
                     /\ Last(history').ast_root = last_fold'.id
                     /\ commits'[req.r.commit].ast_root = last_fold'.id]_vars
  /\ (pc = "java_src") ~> (pc # "java_src")
  /\ (pc \in LoopPcs) ~> (pc \in {"idle", "aborted"})

\* a Maven-mode and then a Java-mode ingestion have returned, the second after a
\* call of handle_java_src that folded a frame under its initial frame
C26_Witness ==
  /\ pc = "idle"
  /\ Len(history) = 2
  /\ history[1].r.mode = "maven"
  /\ history[2].r.mode = "java"
  /\ \E i, j \in Events("enter") :
       /\ log[i].loop = "java_src"
       /\ log[j].loop = "java_src"
       /\ log[j].parent = log[i].frame
       /\ FoldAt(log[i].frame) > FoldAt(log[j].frame)
       /\ FoldAt(log[j].frame) > 0
  /\ FoldAt(1) = Len(log)

\* the type of the node id
TypeOfNode(id) == node_store[id]["Type"]

\* C27: every entry of object_map refers to a MavenDirectory node and every entry
\* of object_map_java under the OID of a tree to a Directory node, so a lookup of
\* handle_maven_module or fast_fwd never returns a node folded by handle_java_src
\* and a lookup of a subtree by handle_java_src never one folded by the Maven
\* traversal, also for a tree that is a key of both maps.
C27_CachedByRole ==
  /\ \A x \in DOMAIN object_map : TypeOfNode(object_map[x].id) = "MavenDirectory"
  /\ \A x \in DOMAIN object_map_java \cap DOMAIN Trees :
       TypeOfNode(object_map_java[x].local.compressed_node) = "Directory"
  /\ last_hit.some
       => /\ last_hit.map = "object_map" => TypeOfNode(last_hit.id) = "MavenDirectory"
          /\ (last_hit.map = "object_map_java" /\ last_hit.entry.kind = "Tree")
               => TypeOfNode(last_hit.id) = "Directory"
  /\ last_fold.some
       => /\ last_fold.kind = TypeOfNode(last_fold.id)
          /\ last_fold.kind = "MavenDirectory"
               => \A x \in DOMAIN object_map_java \cap DOMAIN Trees :
                    object_map_java[x].local.compressed_node # last_fold.id
          /\ last_fold.kind = "Directory"
               => \A x \in DOMAIN object_map : object_map[x].id # last_fold.id

\* a tree that is a key of both maps, under two nodes, looked up by handle_java_src
C27_Witness ==
  /\ pc = "java_src"
  /\ last_hit.some
  /\ last_hit.map = "object_map_java"
  /\ last_hit.entry.kind = "Tree"
  /\ last_hit.entry.oid \in DOMAIN object_map
  /\ object_map[last_hit.entry.oid].id # last_hit.id

\* the tree OIDs memoized by handle_java_src
JavaDirs == DOMAIN object_map_java \cap DOMAIN Trees

\* the node memoized for the directory y has the node memoized for x as a child
ChildDir(x, y) ==
  LET ny == node_store[object_map_java[y].local.compressed_node]
  IN /\ "CS_NodeIdentifier" \in DOMAIN ny
     /\ object_map_java[x].local.compressed_node \in Range(ny["CS_NodeIdentifier"])

\* C28: in handle_java_src a directory with skiped_ana marks its parent: by a memo
\* hit the flag memoized with it reaches push_dir, by a fresh fold the flag of its
\* accumulator does, the flag is memoized at the fold and never leaves a frame,
\* so every directory memoized over a skiped_ana directory is memoized skiped_ana.
C28_SkippedPropagates ==
  /\ [][(pc = "java_src" /\ pc' # "aborted" /\ JHasChild /\ JCur.kind = "Tree"
            /\ JCur.oid \in DOMAIN object_map_java /\ object_map_java[JCur.oid].skiped_ana)
          => jstack'[Len(jstack)].acc.skiped_ana]_vars
  /\ [][(pc = "java_src" /\ pc' # "aborted" /\ jstack # << >>
            /\ Top(jstack).children = << >> /\ Top(jstack).acc.skiped_ana)
          => /\ object_map_java'[Top(jstack).oid].skiped_ana
             /\ Len(jstack) > 1 => jstack'[Len(jstack) - 1].acc.skiped_ana]_vars
  /\ [][pc = "java_src"
          => \A k \in 1..Len(jstack') :
               (k <= Len(jstack) /\ jstack[k].acc.skiped_ana) => jstack'[k].acc.skiped_ana]_vars
  /\ [](\A x, y \in JavaDirs :
          (ChildDir(x, y) /\ object_map_java[x].skiped_ana) => object_map_java[y].skiped_ana)

\* a directory memoized skiped_ana was attached by a memo hit, its parent was
\* folded and attached, and the fold at hand is that of an ancestor above
C28_Witness ==
  /\ last_hit.some
  /\ last_hit.map = "object_map_java"
  /\ last_hit.entry.kind = "Tree"
  /\ object_map_java[last_hit.entry.oid].skiped_ana
  /\ last_fold.some
  /\ last_fold.kind = "Directory"
  /\ last_fold.acc.skiped_ana
  /\ last_hit.id \notin Range(last_fold.acc.children)
  /\ \E y \in JavaDirs :
       /\ ChildDir(last_hit.entry.oid, y)
       /\ object_map_java[y].local.compressed_node \in Range(last_fold.acc.children)

\* the paths of the pending set v that start with name, without that component
Remainders(v, name) ==
  IF v.some
  THEN LET hit == SelectSeq(v.v, LAMBDA x : Len(x) > 0 /\ x[1] = name)
       IN [i \in 1..Len(hit) |-> Tail(hit[i])]
  ELSE << >>

\* the pending set v without the paths that start with name
Stripped(v, name) ==
  IF v.some THEN Some(SelectSeq(v.v, LAMBDA x : ~(Len(x) > 0 /\ x[1] = name))) ELSE v

EmptyRemainder(paths) == \E i \in 1..Len(paths) : paths[i] = << >>

NonEmptyRemainders(paths) == SelectSeq(paths, LAMBDA x : x # << >>)

\* the Maven frame the miss on the entry e of the frame with accumulator acc pushes
SeededFrame(frame, e, acc) ==
  /\ frame.oid = e.oid
  /\ frame.children = prepare_dir_exploration(e.oid, << >>)
  /\ frame.acc.name = e.name
  /\ frame.acc.children = << >>
  /\ frame.acc.sub_modules = Some(NonEmptyRemainders(Remainders(acc.sub_modules, e.name)))
  /\ frame.acc.main_dirs = Some(NonEmptyRemainders(Remainders(acc.main_dirs, e.name)))
  /\ frame.acc.test_dirs = Some(NonEmptyRemainders(Remainders(acc.test_dirs, e.name)))

\* the miss on e needs a Maven frame whatever else it does
NeedsMavenFrame(e, acc) ==
  \/ EmptyRemainder(Remainders(acc.sub_modules, e.name))
  \/ NonEmptyRemainders(Remainders(acc.sub_modules, e.name)) # << >>
  \/ NonEmptyRemainders(Remainders(acc.main_dirs, e.name)) # << >>
  \/ NonEmptyRemainders(Remainders(acc.test_dirs, e.name)) # << >>

IsMainRoot(e, acc) == EmptyRemainder(Remainders(acc.main_dirs, e.name))

IsTestRoot(e, acc) == EmptyRemainder(Remainders(acc.test_dirs, e.name))

\* C29: on a miss of object_map handle_maven_module strips the name of the
\* subdirectory from the pending sets of the parent; with an empty remainder in
\* main_dirs the subdirectory goes to handle_java_src and is attached by
\* push_source_directory, otherwise with an empty remainder in test_dirs it goes to
\* handle_java_src and is attached by push_test_source_directory; with an empty
\* remainder in sub_modules, a non-empty remainder, or no match at all, a Maven
\* frame seeded with the non-empty remainders is pushed for it.
C29_MissRouting ==
  /\ [][(MavenMiss /\ pc' # "aborted")
          => LET e == Cur
                 acc == Top(stack).acc
                 parent == stack'[Len(stack)].acc
             IN /\ parent.sub_modules = Stripped(acc.sub_modules, e.name)
                /\ parent.main_dirs = Stripped(acc.main_dirs, e.name)
                /\ parent.test_dirs = Stripped(acc.test_dirs, e.name)
                /\ IF IsMainRoot(e, acc) \/ IsTestRoot(e, acc)
                   THEN /\ pc' = "java_src"
                        /\ Len(stack') = Len(stack)
                        /\ Len(jstack') = 1
                        /\ jstack'[1].oid = e.oid
                        /\ jstack'[1].acc = JavaAcc_new(e.name)
                        /\ jret'.entry = e
                        /\ jret'.c.is_source_dir = IsMainRoot(e, acc)
                        /\ jret'.c.is_test_source_dir = IsTestRoot(e, acc)
                        /\ NeedsMavenFrame(e, acc)
                             => SeededFrame(MavenFrame(e, jret'.c, 0), e, acc)
                        /\ NeedsMavenFrame(e, acc) <=> PushesFrame(jret'.c)
                   ELSE /\ pc' = "maven"
                        /\ Len(stack') = Len(stack) + 1
                        /\ SeededFrame(Top(stack'), e, acc)]_vars
  /\ [][(pc = "java_src" /\ jret.some /\ jret.caller = "maven" /\ pc' = "maven")
          => LET attach == log'[Len(log) + 2]
             IN /\ attach.ev = "attach"
                /\ attach.frame = Top(stack).fid
                /\ attach.id = last_fold'.id
                /\ attach.via = IF jret.c.is_source_dir THEN "push_source_directory"
                                ELSE "push_test_source_directory"
                /\ Last(stack'[Len(stack)].acc.children) = attach.id
                /\ IF PushesFrame(jret.c)
                   THEN /\ Len(stack') = Len(stack) + 1
                        /\ Top(stack') = MavenFrame(jret.entry, jret.c, nfid + 1)
                   ELSE Len(stack') = Len(stack)]_vars

\* one module whose pom.xml names src as main and tst as test source root: src
\* attached by push_source_directory, tst by push_test_source_directory, and docs,
\* which matches nothing, given a Maven frame
C29_Witness ==
  /\ \E i \in Events("attach") : log[i].frame = 1 /\ log[i].via = "push_source_directory"
  /\ \E i \in Events("attach") : log[i].frame = 1 /\ log[i].via = "push_test_source_directory"
  /\ \E i \in Events("enter") :
       log[i].parent = 1 /\ log[i].loop = "maven" /\ log[i].name = "docs"

\* a subdirectory that is a test source root and a sub-module: attached by
\* push_test_source_directory and given a Maven frame
C29_SourceRootAndModule ==
  \E i \in Events("attach") :
    /\ log[i].via = "push_test_source_directory"
    /\ i < Len(log)
    /\ log[i + 1].ev = "enter"
    /\ log[i + 1].loop = "maven"
    /\ log[i + 1].parent = log[i].frame

\* fast_fwd is at a child of the frame the descent ended in
FastFwdAtTarget == pc = "fast_fwd" /\ HasChild /\ dir_path = << >>

\* no pending set of the accumulator was ever filled
NothingPending(acc) ==
  ~acc.sub_modules.some /\ ~acc.main_dirs.some /\ ~acc.test_dirs.some

\* C30: in fast_fwd, once the descent path is exhausted, a subdirectory that is not
\* in object_map is processed by handle_java_src and attached with
\* push_source_directory, and no Maven frame is pushed for it; a blob, pom.xml
\* included, is neither parsed nor memoized nor attached; the frames of fast_fwd
\* hold no pending path, and a subdirectory leaves the accumulator of its parent
\* as it is until it is attached.
C30_FastFwdRouting ==
  /\ [][(FastFwdAtTarget /\ Cur.kind = "Tree" /\ Cur.oid \notin DOMAIN object_map
            /\ pc' # "aborted")
          => /\ pc' = "java_src"
             /\ Len(jstack') = 1
             /\ jstack'[1].oid = Cur.oid
             /\ jstack'[1].acc = JavaAcc_new(Cur.name)
             /\ jstack'[1].children = prepare_java(Cur.oid)
             /\ Len(stack') = Len(stack)
             /\ stack'[Len(stack)].acc = Top(stack).acc]_vars
  /\ [][(pc = "java_src" /\ req.r.mode = "java" /\ pc' \notin {"java_src", "aborted"})
          => LET attach == log'[Len(log) + 2]
             IN /\ pc' = "fast_fwd"
                /\ Len(log') = Len(log) + 2
                /\ attach.ev = "attach"
                /\ attach.frame = Top(stack).fid
                /\ attach.via = "push_source_directory"
                /\ attach.id = last_fold'.id
                /\ last_fold'.kind = "Directory"
                /\ Len(stack') = Len(stack)
                /\ Last(stack'[Len(stack)].acc.children) = attach.id]_vars
  /\ [][(pc = "fast_fwd" /\ HasChild /\ Cur.kind = "Blob")
          => /\ pc' = "fast_fwd"
             /\ UNCHANGED << node_store, label_store, object_map, object_map_pom,
                             object_map_java, parsed >>
             /\ Len(stack') = Len(stack)
             /\ stack'[Len(stack)].acc = Top(stack).acc
             /\ stack'[Len(stack)].attached = Top(stack).attached]_vars
  /\ []((req.some /\ req.r.mode = "java")
          => \A k \in 1..Len(stack) : NothingPending(stack[k].acc))

\* a Java-mode ingestion of a tree with a pom.xml and a subdirectory has returned:
\* the pom.xml was popped and passed over, the subdirectory attached by
\* push_source_directory
C30_Witness ==
  /\ pc = "idle"
  /\ history # << >>
  /\ Last(history).r.mode = "java"
  /\ \E i \in Events("pop") :
       /\ log[i].frame = 1
       /\ IsPom(log[i].entry)
       /\ log[i + 1].ev = "pop"
  /\ \E i \in Events("attach") :
       log[i].frame = 1 /\ log[i].via = "push_source_directory" /\ log[i].child # 0

\* the entry of the tree t under name, None when there is none
RECURSIVE EntryAt(_, _)
EntryAt(t, path) ==
  LET at == {i \in 1..Len(Trees[t]) : Trees[t][i].name = Head(path)}
  IN IF at = {} THEN None
     ELSE LET e == Trees[t][CHOOSE i \in at : TRUE]
          IN IF Len(path) = 1 THEN Some(e)
             ELSE IF e.kind = "Tree" THEN EntryAt(e.oid, Tail(path)) ELSE None

\* the root tree t is one module: the entries pom.xml and src and no other, the
\* pom.xml declaring src/main/java as its main source root and no sub-module, and
\* the file src/main/java/A.java
SingleModuleTree(t) ==
  /\ {Trees[t][i].name : i \in 1..Len(Trees[t])} = {"pom.xml", "src"}
  /\ LET pom == EntryAt(t, <<"pom.xml">>)
         a == EntryAt(t, <<"src", "main", "java", "A.java">>)
     IN /\ pom.some
        /\ pom.v.kind = "Blob"
        /\ Blobs[pom.v.oid].utf8
        /\ Blobs[pom.v.oid].parse_ok
        /\ Blobs[pom.v.oid].main_dirs = DefaultMainDirs
        /\ Blobs[pom.v.oid].sub_modules = << >>
        /\ a.some
        /\ a.v.kind = "Blob"
        /\ Blobs[a.v.oid].utf8
        /\ Blobs[a.v.oid].parse_ok

\* the ingestions of a single module by handle_maven_commit from its root, into a
\* repository that has memoized nothing yet
SingleModuleRuns ==
  {i \in 1..Len(history) :
     /\ history[i].known.object_map = {}
     /\ history[i].known.object_map_pom = {}
     /\ history[i].known.object_map_java = {}
     /\ history[i].r.mode = "maven"
     /\ history[i].r.module_path = << >>
     /\ SingleModuleTree(history[i].tree)}

\* C31: the ast_root of the Maven-mode ingestion of a single commit with a root
\* pom.xml and src/main/java/A.java, the only commit of the repository so far, is
\* a MavenDirectory node whose children are pom.xml and
\* src, and child_by_name along src, main, java, A.java from it reaches a file
\* node labelled A.java.
C31_SingleModuleShape ==
  \A i \in SingleModuleRuns :
    LET root == history[i].ast_root
        names == NodeChildrenNames(node_store[root])
        a == PathNode(root, <<"src", "main", "java", "A.java">>)
    IN /\ TypeOfNode(root) = "MavenDirectory"
       /\ Len(names) = 2
       /\ Len(NodeChildren(node_store[root])) = 2
       /\ {label_store[names[k]] : k \in 1..2} = {"pom.xml", "src"}
       /\ a.some
       /\ TypeOfNode(a.v) = "java_Program"
       /\ LabelOf(a.v) = "A.java"
       /\ node_store[a.v]["Content"] = EntryAt(history[i].tree, <<"src", "main", "java", "A.java">>).v.oid

\* a single module was ingested and its commit recorded with that root
C31_Witness ==
  /\ SingleModuleRuns # {}
  /\ \E i \in SingleModuleRuns :
       /\ history[i].r.commit \in DOMAIN commits
       /\ PathNode(history[i].ast_root, <<"src", "main", "java">>).some

\* the children and the names of the children of the directory of the last query
QueryChildren == NodeChildren(node_store[last_query.d])

QueryChildNames == NodeChildrenNames(node_store[last_query.d])

\* C32: a query changes neither the stores nor the memo maps; child_by_name and
\* child_by_name_with_idx return None, interning nothing, for a name that is not
\* in the label store, and otherwise the child under that name, with the index at
\* which the name sits in the directory; child_by_type returns the child of
\* lowest index that has the type, with that index, or None when no child has it.
C32_QueriesReadOnlyPositional ==
  /\ [][(last_query'.some /\ last_query' # last_query)
          => UNCHANGED << node_store, label_store, object_map, object_map_pom,
                          object_map_java, commits, java_md_cache >>]_vars
  /\ [](last_query.some
          => LET q == last_query
                 l == label_get(label_store, q.arg)
                 at == {i \in 1..Len(QueryChildNames) : QueryChildNames[i] = l}
             IN /\ q.op \in {"child_by_name", "child_by_name_with_idx"}
                     => /\ ~q.known => (~q.ret.some /\ l = 0)
                        /\ q.ret.some <=> (l # 0 /\ at # {})
                /\ (q.op = "child_by_name" /\ q.ret.some)
                     => \E i \in at : q.ret.v = QueryChildren[i]
                /\ (q.op = "child_by_name_with_idx" /\ q.ret.some)
                     => /\ q.ret.v.idx + 1 \in at
                        /\ q.ret.v.node = QueryChildren[q.ret.v.idx + 1]
                /\ q.op = "child_by_type"
                     => LET has == {i \in 1..Len(QueryChildren) :
                                      TypeOfNode(QueryChildren[i]) = q.arg}
                        IN /\ q.ret.some <=> has # {}
                           /\ q.ret.some
                                => /\ q.ret.v.idx + 1 \in has
                                   /\ \A i \in has : q.ret.v.idx + 1 <= i
                                   /\ q.ret.v.node = QueryChildren[q.ret.v.idx + 1])

\* child_by_name_with_idx found a child that is not the first of its directory
C32_Witness ==
  /\ last_query.some
  /\ last_query.op = "child_by_name_with_idx"
  /\ last_query.ret.some
  /\ last_query.ret.v.idx > 0

\* a query for a name that was never interned
C32_AbsentName ==
  last_query.some /\ last_query.op = "child_by_name" /\ ~last_query.known

\* child_by_type passed over a child of another type
C32_TypeNotFirst ==
  /\ last_query.some
  /\ last_query.op = "child_by_type"
  /\ last_query.ret.some
  /\ last_query.ret.v.idx > 0
  /\ Cardinality({i \in 1..Len(QueryChildren) :
                    TypeOfNode(QueryChildren[i]) = last_query.arg}) > 1

\* the node the last fold resolved to
FoldedNode == node_store[last_fold.id]

\* C33: the node a directory fold resolves to has the type of the fold, the label
\* of the folded accumulator and its ordered children, so that two folds that
\* differ in one of the three never resolve to the same NodeId, also when their
\* bucket hash, which does not depend on the label, is the same.
C33_FoldResolvesToItsOwnNode ==
  /\ [](last_fold.some
          => /\ FoldedNode["Type"] = last_fold.kind
             /\ get_label(FoldedNode) = label_get(label_store, last_fold.acc.name)
             /\ NodeChildren(FoldedNode) = last_fold.acc.children)
  /\ [][\A i \in 1..Len(node_store) : node_store'[i] = node_store[i]]_vars

\* the fold at hand fell into the bucket of a directory node of the same type
\* with another label, and resolved to a node of its own
C33_Witness ==
  /\ last_fold.some
  /\ \E j \in 1..Len(node_store) :
       /\ j # last_fold.id
       /\ node_store[j]["Type"] = FoldedNode["Type"]
       /\ node_store[j]["SyntaxNodeHashs"].syntax = FoldedNode["SyntaxNodeHashs"].syntax
       /\ get_label(node_store[j]) # get_label(FoldedNode)

\* the assertion of the fold of a Maven frame failed: the name of the folded frame
\* is among the children names of the frame below it
DuplicateNameAtFold ==
  /\ pc = "aborted"
  /\ stack # << >>
  /\ last_fold.some
  /\ last_fold.kind = "MavenDirectory"
  /\ log # << >>
  /\ log[Len(log)].ev = "fold"
  /\ log[Len(log)].id = last_fold.id
  /\ label_get(label_store, last_fold.acc.name) \in Range(Top(stack).acc.children_names)

\* subdirectory entries that were attached by the caller of handle_java_src and
\* were given a Maven frame as well
RoutedTwice ==
  {i \in Events("attach") :
     /\ log[i].via \in {"push_source_directory", "push_test_source_directory"}
     /\ \E j \in Events("enter") :
          /\ log[j].loop = "maven"
          /\ log[j].parent = log[i].frame
          /\ label_get(label_store, log[j].name) = log[i].name}

\* C34: in Maven mode a subdirectory entry is attached to its parent at most once:
\* no directory routed to handle_java_src is given a Maven frame, and the
\* assertion on duplicate names of the fold of a Maven frame never fails.
C34_SubdirectoryAttachedOnce ==
  /\ RoutedTwice = {}
  /\ ~DuplicateNameAtFold
  /\ \A i, j \in Events("attach") :
       (log[i].frame = log[j].frame /\ log[i].name = log[j].name) => i = j

\* a directory that is a source root and a pending sub-module was attached as a
\* source directory, explored as a Maven frame, and the fold of that frame failed
C34_DoubleRoutingAborts ==
  /\ DuplicateNameAtFold
  /\ RoutedTwice # {}

\* the names of the subdirectory entries of the tree t
SubdirectoryNames(t) == {e.name : e \in {x \in Range(Trees[t]) : x.kind = "Tree"}}

\* the tree t has a pom.xml that handle_pom_file parses
HasParsedPom(t) ==
  \E e \in Range(Trees[t]) :
    IsPom(e) /\ Blobs[e.oid].utf8 /\ Blobs[e.oid].parse_ok

\* the names of the children of the node id
ChildNamesOf(id) == {label_store[l] : l \in Range(NodeChildrenNames(node_store[id]))}

\* the node has a child for every subdirectory of t, and for its parsed pom.xml
CompleteFor(id, t) ==
  /\ SubdirectoryNames(t) \subseteq ChildNamesOf(id)
  /\ ChildNamesOf(id) \subseteq SubdirectoryNames(t) \cup {"pom.xml"}
  /\ HasParsedPom(t) => "pom.xml" \in ChildNamesOf(id)

\* every ingestion so far, the one in progress included, is one of Maven mode
MavenModeOnly ==
  /\ \A i \in 1..Len(history) : history[i].r.mode = "maven"
  /\ req.some => req.r.mode = "maven"

\* C35: after any sequence of ingestions of Maven mode, every entry of object_map
\* maps its tree to a node whose child names are the names of all subdirectory
\* entries of the tree, plus pom.xml when the tree has a parsed pom.xml: no entry
\* comes from a frame the descent has emptied.
C35_MemoizedDirectoriesComplete ==
  MavenModeOnly => \A t \in DOMAIN object_map : CompleteFor(object_map[t].id, t)

\* a directory whose remaining children the descent discarded was memoized, and
\* a later ingestion without module_path attached it by a hit of object_map
C35_PrunedMemoHit ==
  /\ MavenModeOnly
  /\ pc = "maven"
  /\ req.r.module_path = << >>
  /\ last_hit.some
  /\ last_hit.map = "object_map"
  /\ ~CompleteFor(last_hit.id, last_hit.entry.oid)

\* the memo map m2 holds every key of m, with the value m has for it
KeepsEntries(m, m2) ==
  \A k \in DOMAIN m : k \in DOMAIN m2 /\ m2[k] = m[k]

\* C36: memo entries are write-once and never evicted: over ingestions and
\* purge_caches calls a key of object_map, object_map_pom or object_map_java stays
\* a key, and the value stored for it never changes after its first insertion.
C36_MemoEntriesWriteOnce ==
  [][/\ KeepsEntries(object_map, object_map')
     /\ KeepsEntries(object_map_pom, object_map_pom')
     /\ KeepsEntries(object_map_java, object_map_java')]_vars

\* no key of a memo map is ever evicted, and an entry of object_map_pom is never
\* written a second time
C36_KeysKept ==
  [][/\ DOMAIN object_map \subseteq DOMAIN object_map'
     /\ KeepsEntries(object_map_pom, object_map_pom')
     /\ DOMAIN object_map_java \subseteq DOMAIN object_map_java']_vars

\* the metrics of the entries of object_map, which do not hold a NodeId, are kept
C36_MetricsKept ==
  [][\A k \in DOMAIN object_map :
       k \in DOMAIN object_map' /\ object_map'[k].md.metrics = object_map[k].md.metrics]_vars

\* the k-th smallest element of the set of indices S
NthOf(S, k) == CHOOSE i \in S : Cardinality({j \in S : j < i}) = k - 1

\* the positions of v at which a path has name for its first component
StartsAt(v, name) == {i \in 1..Len(v) : Len(v[i]) > 0 /\ v[i][1] = name}

\* C37: drain_filter_strip(v, name) partitions the pending set: the paths whose
\* first component is name leave v and are returned without that component in
\* their order, the other paths stay in v unchanged and in their order, the
\* numbers of returned and of remaining paths add up to the number there was,
\* and on None nothing is returned and v stays None.
C37_DrainFilterStripPartitions ==
  (drained.some /\ drained.done)
    => IF ~drained.v.some
       THEN drained.out = << >> /\ drained.left = None
       ELSE LET v == drained.v.v
                hits == StartsAt(v, drained.name)
                rest == (1..Len(v)) \ hits
            IN /\ drained.left.some
               /\ Len(drained.out) + Len(drained.left.v) = Len(v)
               /\ Len(drained.out) = Cardinality(hits)
               /\ \A k \in 1..Len(drained.out) : drained.out[k] = Tail(v[NthOf(hits, k)])
               /\ \A k \in 1..Len(drained.left.v) : drained.left.v[k] = v[NthOf(rest, k)]

\* a call on three paths: two start with the name and have different remainders,
\* one does not and stays
C37_Witness ==
  /\ drained.some
  /\ drained.done
  /\ drained.v.some
  /\ Len(drained.v.v) = 3
  /\ Len(drained.out) = 2
  /\ drained.out[1] # drained.out[2]
  /\ Len(drained.left.v) = 1

\* the call was made on None
C37_None == drained.some /\ drained.done /\ ~drained.v.some

RECURSIVE Unmatched(_, _)
\* what is left of path when its components are followed from the tree t through
\* subtrees, as far as they match one
Unmatched(t, path) ==
  IF path = << >> THEN << >>
  ELSE LET e == EntryAt(t, << Head(path) >>)
       IN IF e.some /\ e.v.kind = "Tree" THEN Unmatched(e.v.oid, Tail(path)) ELSE path

\* what the module_path of the call c leaves unmatched in the tree of its commit
UnmatchedOf(c) == Unmatched(CommitTree[c.commit], c.module_path)

RECURSIVE PrunedChain(_, _)
\* the node id heads a chain of k directories of one child each that ends in a
\* directory without children
PrunedChain(id, k) ==
  LET cs == NodeChildren(node_store[id])
  IN IF k = 0 THEN cs = << >>
     ELSE Len(cs) = 1 /\ PrunedChain(cs[1], k - 1)

\* C38: an ingestion whose module_path has a component that matches no subtree at
\* its level raises no error and returns: the frame in which the match failed is
\* folded without children, under the frames of the components that matched, the
\* rest of the path is left unconsumed, and the Commit is recorded with that root.
C38_UnmatchedPathFoldsEmpty ==
  /\ (req.some /\ UnmatchedOf(req.r) # << >>) => pc # "aborted"
  /\ \A i \in 1..Len(history) :
       LET h == history[i]
       IN UnmatchedOf(h.r) # << >>
            => PrunedChain(h.ast_root, Len(h.r.module_path) - Len(UnmatchedOf(h.r)))
  /\ (pc = "idle" /\ history # << >> /\ UnmatchedOf(Last(history).r) # << >>)
       => LET h == Last(history)
          IN /\ dir_path = UnmatchedOf(h.r)
             /\ h.r.commit \in DOMAIN commits
             /\ commits[h.r.commit].ast_root = h.ast_root

\* the ingestion of a path whose first component matched and whose second did not
\* has returned
C38_Witness ==
  /\ pc = "idle"
  /\ history # << >>
  /\ UnmatchedOf(Last(history).r) # << >>
  /\ Len(UnmatchedOf(Last(history).r)) < Len(Last(history).r.module_path)

\* the ingestion of a path whose first component matched nothing has returned
C38_NothingMatched ==
  /\ pc = "idle"
  /\ history # << >>
  /\ Last(history).r.module_path # << >>
  /\ UnmatchedOf(Last(history).r) = Last(history).r.module_path

\* the stack of the loop that runs
LoopStack == IF pc = "java_src" THEN jstack ELSE stack

\* the step attaches a child: the log gains an attach event
AttachesChild == \E i \in (Len(log) + 1)..Len(log') : log'[i].ev = "attach"

\* a frame of stk has one more child attached in stk2
AttachedTo(stk, stk2) ==
  \E k \in 1..Len(stk) :
    /\ k <= Len(stk2)
    /\ stk2[k].fid = stk[k].fid
    /\ Len(stk2[k].attached) = Len(stk[k].attached) + 1

\* the step is a memo hit
HitsMemo == last_hit'.some /\ last_hit' # last_hit

\* C39: in each traversal loop the stack is non-empty at the start of every
\* iteration and whenever a child is attached to its top frame, a memo hit never
\* finds the stack empty and never ends the loop, and a stack becomes empty only
\* at the fold of its initial frame, which ends the loop.
C39_StackNeverEmptyInLoop ==
  /\ [](pc \in LoopPcs => LoopStack # << >>)
  /\ [](pc = "java_src" => stack # << >>)
  /\ [][(pc \in LoopPcs /\ AttachesChild)
         => AttachedTo(stack, stack') \/ AttachedTo(jstack, jstack')]_vars
  /\ [][(pc \in LoopPcs /\ HitsMemo)
         => /\ pc' \in {pc, "aborted"}
            /\ LoopStack # << >>
            /\ Len(stack') = Len(stack)
            /\ Len(jstack') = Len(jstack)]_vars
  /\ [][(stack # << >> /\ stack' = << >>)
         => /\ Len(stack) = 1
            /\ stack[1].fid = 1
            /\ stack[1].children = << >>
            /\ pc \in {"maven", "fast_fwd"}
            /\ pc' = "idle"]_vars
  /\ [][(jstack # << >> /\ jstack' = << >>)
         => /\ Len(jstack) = 1
            /\ jstack[1].oid = jret.entry.oid
            /\ jstack[1].children = << >>
            /\ pc = "java_src"
            /\ pc' # "java_src"]_vars

\* in an ingestion that descended and pushed frames, a memo hit attached a child
\* to a frame above the initial one
C39_Witness ==
  /\ pc \in LoopPcs
  /\ Len(LoopStack) >= 2
  /\ last_hit.some
  /\ log # << >>
  /\ log[Len(log)].ev = "attach"
  /\ Top(LoopStack).attached # << >>

=============================================================================
